---- MODULE Spec2Model ----
(***************************************************************************)
(* Model of the KOS connection agent                                       *)
(* (staging/kos/pkg/controllers/connectionagent/connectionagent.go).       *)
(*                                                                         *)
(* The state is the agent's in-memory registries, its work queue and the   *)
(* position of the start-up routine and of every worker, together with the *)
(* three collaborators the agent talks to: the object store (API server),  *)
(* the informer caches fed from it, and the network fabric.                *)
(***************************************************************************)
EXTENDS Integers, Sequences, FiniteSets, TLC

\* ------------------------------------------------------------------ bounds

\* number of store mutations the environment may perform
MaxEvents == 2
\* number of worker goroutines (ca.workers)
NumWorkers == 2
\* number of interfaces the fabric holds before the agent starts
MaxPreIfcs == 2
\* number of iterations of a start-up delete loop that are followed
MaxSleeps == 1

Names == {"a", "b"}
VNIs == {1, 2}
Workers == 1..NumWorkers

\* ------------------------------------------------------- configuration

localNodeName == "n1"
otherNodeName == "n2"
Nodes == {localNodeName, otherNodeName}

\* ca.hostIP, and the host IP of the other node
hostIP == <<10, 0, 0, 1>>
otherHostIP == <<10, 0, 0, 2>>

\* the nil gonet.IP: ParseIP of a string that is no address, or a field
\* that a composite literal leaves out
NilIP == <<>>

\* guest addresses; 10.0.0.5 and 14.0.0.5 agree on bit 1 of the first octet
GuestIPStrs == {"10.0.0.5", "10.0.0.6", "14.0.0.5"}
\* the addresses IPAM hands to each attachment name
IPsOf(n) == IF n = "a" THEN {"10.0.0.5"} ELSE {"10.0.0.6", "14.0.0.5"}

\* ---------------------------------------------------- pure functions

\* gonet.ParseIP on the strings that occur: text to four bytes, nil otherwise
ParseIP(s) ==
    CASE s = "10.0.0.1" -> <<10, 0, 0, 1>>
      [] s = "10.0.0.2" -> <<10, 0, 0, 2>>
      [] s = "10.0.0.5" -> <<10, 0, 0, 5>>
      [] s = "10.0.0.6" -> <<10, 0, 0, 6>>
      [] s = "14.0.0.5" -> <<14, 0, 0, 5>>
      [] OTHER -> NilIP

Digits == <<"0", "1", "2", "3", "4", "5", "6", "7", "8", "9">>

RECURSIVE DecStr(_)
DecStr(n) == IF n < 10 THEN Digits[n + 1] ELSE DecStr(n \div 10) \o Digits[(n % 10) + 1]

\* gonet.IP.String() for an IPv4 address (dotted decimal), "<nil>" for nil
IPString(ip) ==
    IF ip = NilIP THEN "<nil>"
    ELSE DecStr(ip[1]) \o "." \o DecStr(ip[2]) \o "." \o DecStr(ip[3]) \o "." \o DecStr(ip[4])

\* gonet.IP.Equal
IPEqual(x, y) == x = y

HexDigits == <<"0", "1", "2", "3", "4", "5", "6", "7", "8", "9", "a", "b", "c", "d", "e", "f">>

HexByte(b) == HexDigits[(b \div 16) + 1] \o HexDigits[(b % 16) + 1]

\* byte(x): the low eight bits
Byte(x) == x % 256

\* a MAC derivation that leaves bits 16 to 20 of the VNI out of the first
\* byte
generateMACAddrLow16(vni, guestIPv4) ==
    << (((guestIPv4[1] \div 2) % 2) * 4) + 2,
       guestIPv4[2],
       guestIPv4[3],
       guestIPv4[4],
       Byte(vni \div 256),
       Byte(vni) >>

\* a MAC derivation that takes the high bits from vni >> 12
generateMACAddrShift12(vni, guestIPv4) ==
    << ((Byte(vni \div 4096) \div 8) * 8) + (((guestIPv4[1] \div 2) % 2) * 4) + 2,
       guestIPv4[2],
       guestIPv4[3],
       guestIPv4[4],
       Byte(vni \div 256),
       Byte(vni) >>

generateMACAddr(vni, guestIPv4) ==
    << ((Byte(vni \div 8192) \div 8) * 8) + (((guestIPv4[1] \div 2) % 2) * 4) + 2,
       guestIPv4[2],
       guestIPv4[3],
       guestIPv4[4],
       Byte(vni \div 256),
       Byte(vni) >>

\* gonet.HardwareAddr.String(): colon-separated lower-case hex
MACString(mac) ==
    HexByte(mac[1]) \o ":" \o HexByte(mac[2]) \o ":" \o HexByte(mac[3]) \o ":" \o
    HexByte(mac[4]) \o ":" \o HexByte(mac[5]) \o ":" \o HexByte(mac[6])

\* "kos" + the MAC's string with the colons removed
generateIfcName(macAddr) ==
    "kos" \o HexByte(macAddr[1]) \o HexByte(macAddr[2]) \o HexByte(macAddr[3]) \o
    HexByte(macAddr[4]) \o HexByte(macAddr[5]) \o HexByte(macAddr[6])

\* an update test that looks at the host IP only
ifcNeedsUpdateHostIPOnly(ifcHostIP, newHostIP, ifcMAC, newMAC) ==
    ~IPEqual(ifcHostIP, newHostIP)

ifcNeedsUpdate(ifcHostIP, newHostIP, ifcMAC, newMAC) ==
    ~IPEqual(ifcHostIP, newHostIP) \/ ifcMAC # newMAC

\* ------------------------------------------------------------ values

\* absent NetworkAttachment (nil pointer / NotFound)
NoAtt == [absent |-> TRUE]

\* a NetworkAttachment: Spec.Node and the Status fields the agent reads
Att(node, vni, ip, hip, ifcName) ==
    [node |-> node, vni |-> vni, ip |-> ip, hostIP |-> hip, ifcName |-> ifcName]

\* index function of the informers: the MAC string of an attachment
attachmentMACAddr(att) == MACString(generateMACAddr(att.vni, ParseIP(att.ip)))

\* absent interface (map lookup with found = false)
NoIfc == [absent |-> TRUE]

LocalNetIfc(name, vni, mac, gip, hip) ==
    [Name |-> name, VNI |-> vni, GuestMAC |-> mac, GuestIP |-> gip, HostIP |-> hip]

RemoteNetIfc(vni, mac, gip, hip) ==
    [VNI |-> vni, GuestMAC |-> mac, GuestIP |-> gip, HostIP |-> hip]

\* absent vnState (nil pointer)
NoVnState == [absent |-> TRUE]

\* absent VNI in nsnToVNStateVNI (map lookup with found = false)
NoVNI == 0

\* ------------------------------------------------------------- state

VARIABLES
    store,            \* API server: [Names -> attachment or NoAtt]
    events,           \* store mutations the environment may still perform
    localIfcs,        \* fabric: the local interfaces that exist
    remoteIfcs,       \* fabric: the remote interfaces that exist
    localCache,       \* cache of localAttsInformer: [Names -> attachment or NoAtt]
    vniToVnState,     \* ca.vniToVnState: [VNIs -> vnState or NoVnState]
    nsnToVNStateVNI,  \* ca.nsnToVNStateVNI: [Names -> VNI or NoVNI]
    nsnToLocalIfc,    \* ca.nsnToLocalIfc: [Names -> LocalNetIfc or NoIfc]
    nsnToRemoteIfc,   \* ca.nsnToRemoteIfc: [Names -> RemoteNetIfc or NoIfc]
    nsnToVNIs,        \* ca.nsnToVNIs: [Names -> SUBSET VNIs]
    queue,            \* ca.queue: the rate limiting work queue
    main,             \* the goroutine executing Run
    wk                \* the worker goroutines: [Workers -> their position and locals]

vars == << store, events, localIfcs, remoteIfcs, localCache, vniToVnState,
           nsnToVNStateVNI, nsnToLocalIfc, nsnToRemoteIfc, nsnToVNIs, queue, main, wk >>

\* the store and the environment's budget
envVars == << store, events >>
\* the fabric
fabricVars == << localIfcs, remoteIfcs >>
\* the interface registry
ifcVars == << nsnToLocalIfc, nsnToRemoteIfc >>

\* ------------------------------------------------------ the work queue

\* a workqueue.Add that queues an item although a worker is processing it
QAddWhileProcessing(q, n) ==
    IF q.shut \/ n \in q.dirty THEN q
    ELSE [q EXCEPT !.dirty = @ \cup {n}, !.queue = @ \cup {n}]

\* workqueue.Add: an item is marked dirty once, and queued unless a worker
\* is processing it
QAdd(q, n) ==
    IF q.shut \/ n \in q.dirty THEN q
    ELSE IF n \in q.processing THEN [q EXCEPT !.dirty = @ \cup {n}]
    ELSE [q EXCEPT !.dirty = @ \cup {n}, !.queue = @ \cup {n}]

\* workqueue.Get of item n
QGet(q, n) ==
    [q EXCEPT !.queue = @ \ {n}, !.dirty = @ \ {n}, !.processing = @ \cup {n}]

\* workqueue.Done: an item added while it was processed is queued again
QDone(q, n) ==
    [q EXCEPT !.processing = @ \ {n},
              !.queue = IF n \in q.dirty THEN @ \cup {n} ELSE @]

\* workqueue.AddRateLimited: the item is added after the limiter's delay
QAddRateLimited(q, n) ==
    [q EXCEPT !.delayed = @ \cup {n}, !.failed = @ \cup {n}]

\* workqueue.Forget: the limiter drops the item's failure count
QForget(q, n) == [q EXCEPT !.failed = @ \ {n}]

RECURSIVE QAddAll(_, _)
QAddAll(q, S) ==
    IF S = {} THEN q
    ELSE LET n == CHOOSE x \in S : TRUE IN QAddAll(QAdd(q, n), S \ {n})

\* a tail of processQueueItem that never requeues
EndItemForgets(q, n, err) == QDone(QForget(q, n), n)

\* the tail of processQueueItem: AddRateLimited on error, Forget otherwise,
\* and the deferred Done
EndItem(q, n, err) ==
    QDone(IF err THEN QAddRateLimited(q, n) ELSE QForget(q, n), n)

\* ------------------------------------------------- registry accessors

addVNI(m, nsn, vni) == [m EXCEPT ![nsn] = @ \cup {vni}]

removeSeenInVNI(m, nsn, vni) == [m EXCEPT ![nsn] = @ \ {vni}]

RECURSIVE removeSeenInVNIAll(_, _, _)
removeSeenInVNIAll(m, S, vni) ==
    IF S = {} THEN m
    ELSE LET n == CHOOSE x \in S : TRUE
         IN removeSeenInVNIAll(removeSeenInVNI(m, n, vni), S \ {n}, vni)

\* a fresh vnState: the remote attachments informer has an empty cache
\* and has not listed yet
initVNState ==
    [localAtts |-> {}, remoteAtts |-> {},
     cache |-> [n \in Names |-> NoAtt], synced |-> FALSE]

\* a removeAttFromVNState that leaves a vnState without local attachments
\* in the registry
removeAttFromVNStateKeepsEmpty(reg, attName, vni) ==
    LET vnState == reg[vni] IN
    IF vnState = NoVnState THEN [reg |-> reg, ret |-> NoVnState]
    ELSE [reg |-> [reg EXCEPT ![vni] = [vnState EXCEPT !.localAtts = @ \ {attName},
                                                       !.remoteAtts = @ \ {attName}]],
          ret |-> NoVnState]

\* removeAttFromVNState, the critical section: the new registry and the
\* vnState handed to the caller (NoVnState for nil)
removeAttFromVNState(reg, attName, vni) ==
    LET vnState == reg[vni] IN
    IF vnState = NoVnState THEN [reg |-> reg, ret |-> NoVnState]
    ELSE LET s1 == [vnState EXCEPT !.localAtts = @ \ {attName}] IN
         IF s1.localAtts = {}
         THEN [reg |-> [reg EXCEPT ![vni] = NoVnState], ret |-> s1]
         ELSE [reg |-> [reg EXCEPT ![vni] = [s1 EXCEPT !.remoteAtts = @ \ {attName}]],
               ret |-> NoVnState]

\* an updateVNStateForExistingAtt that adds the attachment to one set of
\* the vnState and leaves the other set as it is
updateVNStateForExistingAttKeepsOtherSet(reg, attName, attIsLocal, vni) ==
    LET vnState == reg[vni] IN
    IF attIsLocal
    THEN LET s0 == IF vnState = NoVnState THEN initVNState ELSE vnState
             s1 == [s0 EXCEPT !.localAtts = @ \cup {attName}]
         IN [reg |-> [reg EXCEPT ![vni] = s1], ret |-> NoVnState, noVn |-> FALSE]
    ELSE IF vnState # NoVnState
         THEN LET s1 == [vnState EXCEPT !.remoteAtts = @ \cup {attName}]
              IN IF s1.localAtts = {}
                 THEN [reg |-> [reg EXCEPT ![vni] = NoVnState], ret |-> s1, noVn |-> FALSE]
                 ELSE [reg |-> [reg EXCEPT ![vni] = s1], ret |-> NoVnState, noVn |-> FALSE]
         ELSE [reg |-> reg, ret |-> NoVnState, noVn |-> TRUE]

\* an updateVNStateForExistingAtt whose test for a missing vnState is not
\* under the mutex: a second worker that adds a local attachment to the
\* VNI initializes the vnState anew
updateVNStateForExistingAttUnlockedTest(reg, attName, attIsLocal, vni) ==
    LET vnState == reg[vni] IN
    IF attIsLocal
    THEN LET s1 == [initVNState EXCEPT !.localAtts = @ \cup {attName}]
         IN [reg |-> [reg EXCEPT ![vni] = s1], ret |-> NoVnState, noVn |-> FALSE]
    ELSE IF vnState # NoVnState
         THEN LET s1 == [vnState EXCEPT !.remoteAtts = @ \cup {attName},
                                        !.localAtts = @ \ {attName}]
              IN IF s1.localAtts = {}
                 THEN [reg |-> [reg EXCEPT ![vni] = NoVnState], ret |-> s1, noVn |-> FALSE]
                 ELSE [reg |-> [reg EXCEPT ![vni] = s1], ret |-> NoVnState, noVn |-> FALSE]
         ELSE [reg |-> reg, ret |-> NoVnState, noVn |-> TRUE]

\* updateVNStateForExistingAtt, the critical section: the new registry,
\* vnStateRet and noVnStateFoundForRemoteAtt
updateVNStateForExistingAttLocked(reg, attName, attIsLocal, vni) ==
    LET vnState == reg[vni] IN
    IF attIsLocal
    THEN LET s0 == IF vnState = NoVnState THEN initVNState ELSE vnState
             s1 == [s0 EXCEPT !.remoteAtts = @ \ {attName},
                              !.localAtts = @ \cup {attName}]
         IN [reg |-> [reg EXCEPT ![vni] = s1], ret |-> NoVnState, noVn |-> FALSE]
    ELSE IF vnState # NoVnState
         THEN LET s1 == [vnState EXCEPT !.remoteAtts = @ \cup {attName},
                                        !.localAtts = @ \ {attName}]
              IN IF s1.localAtts = {}
                 THEN [reg |-> [reg EXCEPT ![vni] = NoVnState], ret |-> s1, noVn |-> FALSE]
                 ELSE [reg |-> [reg EXCEPT ![vni] = s1], ret |-> NoVnState, noVn |-> FALSE]
         ELSE [reg |-> reg, ret |-> NoVnState, noVn |-> TRUE]

\* a deferred function that unsets the attachment's entry of
\* nsnToVNStateVNI but never sets it
updateVNStateForExistingAttDeferredNeverSets(m, nsn, vni, u) ==
    IF u.ret = NoVnState /\ ~u.noVn
    THEN m
    ELSE [m EXCEPT ![nsn] = NoVNI]

\* the deferred function of updateVNStateForExistingAtt: set or unset the
\* attachment's entry of nsnToVNStateVNI
updateVNStateForExistingAttDeferred(m, nsn, vni, u) ==
    IF u.ret = NoVnState /\ ~u.noVn
    THEN [m EXCEPT ![nsn] = vni]
    ELSE [m EXCEPT ![nsn] = NoVNI]

\* -------------------------------------------------------- the store

\* field selector of the local attachments informer
localAttWithAnIPSelector(o) ==
    o # NoAtt /\ o.node = localNodeName /\ o.ip # ""

\* field selector of the remote attachments informer of a VNI
remoteAttInVNWithVirtualIPHostIPSelector(vni, o) ==
    /\ o # NoAtt
    /\ o.node # localNodeName
    /\ o.hostIP # IPString(hostIP)
    /\ o.ip # ""
    /\ o.hostIP # ""
    /\ o.vni = vni

LocalView(o) == IF localAttWithAnIPSelector(o) THEN o ELSE NoAtt

RemoteView(vni, o) ==
    IF remoteAttInVNWithVirtualIPHostIPSelector(vni, o) THEN o ELSE NoAtt

\* the status the connection agent of the other node writes: its host IP
\* and the name of the interface it has created
otherAgentStatus(o) ==
    [o EXCEPT !.hostIP = IPString(otherHostIP),
              !.ifcName = generateIfcName(generateMACAddr(o.vni, ParseIP(o.ip)))]

\* a NetworkAttachment is created: on this node without status, on the
\* other node with the status its own connection agent has written
EnvCreate(n) ==
    /\ events > 0
    /\ store[n] = NoAtt
    /\ \E node \in Nodes, vni \in VNIs, ip \in IPsOf(n) :
          store' = [store EXCEPT ![n] =
                       IF node = localNodeName
                       THEN Att(node, vni, ip, "", "")
                       ELSE otherAgentStatus(Att(node, vni, ip, "", ""))]
    /\ events' = events - 1
    /\ UNCHANGED << fabricVars, localCache, vniToVnState, nsnToVNStateVNI,
                    ifcVars, nsnToVNIs, queue, main, wk >>

EnvDelete(n) ==
    /\ events > 0
    /\ store[n] # NoAtt
    /\ store' = [store EXCEPT ![n] = NoAtt]
    /\ events' = events - 1
    /\ UNCHANGED << fabricVars, localCache, vniToVnState, nsnToVNStateVNI,
                    ifcVars, nsnToVNIs, queue, main, wk >>

\* Spec.Node changes (the node move of scenario S4); the status is left
\* as the previous node's agent wrote it
EnvSetNode(n) ==
    /\ events > 0
    /\ store[n] # NoAtt
    /\ store' = [store EXCEPT ![n].node =
                    IF @ = localNodeName THEN otherNodeName ELSE localNodeName]
    /\ events' = events - 1
    /\ UNCHANGED << fabricVars, localCache, vniToVnState, nsnToVNStateVNI,
                    ifcVars, nsnToVNIs, queue, main, wk >>

\* Status.AddressVNI changes
EnvSetVNI(n) ==
    /\ events > 0
    /\ store[n] # NoAtt
    /\ \E vni \in VNIs \ {store[n].vni} :
          store' = [store EXCEPT ![n].vni = vni]
    /\ events' = events - 1
    /\ UNCHANGED << fabricVars, localCache, vniToVnState, nsnToVNStateVNI,
                    ifcVars, nsnToVNIs, queue, main, wk >>

\* Status.IPv4 changes
EnvSetIP(n) ==
    /\ events > 0
    /\ store[n] # NoAtt
    /\ \E ip \in IPsOf(n) \ {store[n].ip} :
          store' = [store EXCEPT ![n].ip = ip]
    /\ events' = events - 1
    /\ UNCHANGED << fabricVars, localCache, vniToVnState, nsnToVNStateVNI,
                    ifcVars, nsnToVNIs, queue, main, wk >>

\* the connection agent of the other node writes the status of an
\* attachment that is bound to its node
OtherAgentSetsStatus(n) ==
    /\ store[n] # NoAtt
    /\ store[n].node = otherNodeName
    /\ store[n] # otherAgentStatus(store[n])
    /\ store' = [store EXCEPT ![n] = otherAgentStatus(store[n])]
    /\ UNCHANGED << events, fabricVars, localCache, vniToVnState,
                    nsnToVNStateVNI, ifcVars, nsnToVNIs, queue, main, wk >>

\* ------------------------------------------------------ the informers

\* the local attachments informer completes its initial list: the cache is
\* filled and onLocalAttAdded runs for every attachment listed
waitForLocalAttsCacheSync ==
    /\ main.pc = "waitSync"
    /\ localCache' = [n \in Names |-> LocalView(store[n])]
    /\ queue' = QAddAll(queue, {n \in Names : LocalView(store[n]) # NoAtt})
    /\ main' = [main EXCEPT !.pc = "listLocal"]
    /\ UNCHANGED << envVars, fabricVars, vniToVnState, nsnToVNStateVNI, ifcVars,
                    nsnToVNIs, wk >>

\* stopCh is closed before the cache has synced: Run returns the error and
\* its deferred queue.ShutDown runs
waitForLocalAttsCacheSyncFails ==
    /\ main.pc = "waitSync"
    /\ main' = [main EXCEPT !.pc = "failed"]
    /\ queue' = [queue EXCEPT !.shut = TRUE]
    /\ UNCHANGED << envVars, fabricVars, localCache, vniToVnState, nsnToVNStateVNI,
                    ifcVars, nsnToVNIs, wk >>

\* the local attachments informer has synced and Run has not returned
localSynced == main.pc \notin {"waitSync", "failed"}

onLocalAttAdded(n) ==
    /\ localSynced
    /\ localCache[n] = NoAtt
    /\ LocalView(store[n]) # NoAtt
    /\ localCache' = [localCache EXCEPT ![n] = LocalView(store[n])]
    /\ queue' = QAdd(queue, n)
    /\ UNCHANGED << envVars, fabricVars, vniToVnState, nsnToVNStateVNI, ifcVars,
                    nsnToVNIs, main, wk >>

onLocalAttUpdated(n) ==
    /\ localSynced
    /\ localCache[n] # NoAtt
    /\ LocalView(store[n]) # NoAtt
    /\ localCache[n] # LocalView(store[n])
    /\ localCache' = [localCache EXCEPT ![n] = LocalView(store[n])]
    /\ queue' = QAdd(queue, n)
    /\ UNCHANGED << envVars, fabricVars, vniToVnState, nsnToVNStateVNI, ifcVars,
                    nsnToVNIs, main, wk >>

onLocalAttRemoved(n) ==
    /\ localSynced
    /\ localCache[n] # NoAtt
    /\ LocalView(store[n]) = NoAtt
    /\ localCache' = [localCache EXCEPT ![n] = NoAtt]
    /\ queue' = QAdd(queue, n)
    /\ UNCHANGED << envVars, fabricVars, vniToVnState, nsnToVNStateVNI, ifcVars,
                    nsnToVNIs, main, wk >>

\* the remote attachments informer of a vnState completes its initial list:
\* onRemoteAttAdded runs for every attachment listed
remoteAttsInformerSync(vni) ==
    LET listed == {n \in Names : RemoteView(vni, store[n]) # NoAtt} IN
    /\ main.pc # "failed"
    /\ vniToVnState[vni] # NoVnState
    /\ ~vniToVnState[vni].synced
    /\ vniToVnState' = [vniToVnState EXCEPT
                           ![vni].cache = [n \in Names |-> RemoteView(vni, store[n])],
                           ![vni].synced = TRUE]
    /\ nsnToVNIs' = [n \in Names |->
                        IF n \in listed THEN nsnToVNIs[n] \cup {vni} ELSE nsnToVNIs[n]]
    /\ queue' = QAddAll(queue, listed)
    /\ UNCHANGED << envVars, fabricVars, localCache, nsnToVNStateVNI, ifcVars, main, wk >>

onRemoteAttAdded(vni, n) ==
    /\ main.pc # "failed"
    /\ vniToVnState[vni] # NoVnState
    /\ vniToVnState[vni].synced
    /\ vniToVnState[vni].cache[n] = NoAtt
    /\ RemoteView(vni, store[n]) # NoAtt
    /\ vniToVnState' = [vniToVnState EXCEPT ![vni].cache[n] = RemoteView(vni, store[n])]
    /\ nsnToVNIs' = addVNI(nsnToVNIs, n, RemoteView(vni, store[n]).vni)
    /\ queue' = QAdd(queue, n)
    /\ UNCHANGED << envVars, fabricVars, localCache, nsnToVNStateVNI, ifcVars, main, wk >>

onRemoteAttUpdated(vni, n) ==
    /\ main.pc # "failed"
    /\ vniToVnState[vni] # NoVnState
    /\ vniToVnState[vni].synced
    /\ vniToVnState[vni].cache[n] # NoAtt
    /\ RemoteView(vni, store[n]) # NoAtt
    /\ vniToVnState[vni].cache[n] # RemoteView(vni, store[n])
    /\ vniToVnState' = [vniToVnState EXCEPT ![vni].cache[n] = RemoteView(vni, store[n])]
    /\ queue' = QAdd(queue, n)
    /\ UNCHANGED << envVars, fabricVars, localCache, nsnToVNStateVNI, ifcVars,
                    nsnToVNIs, main, wk >>

onRemoteAttRemoved(vni, n) ==
    /\ main.pc # "failed"
    /\ vniToVnState[vni] # NoVnState
    /\ vniToVnState[vni].synced
    /\ vniToVnState[vni].cache[n] # NoAtt
    /\ RemoteView(vni, store[n]) = NoAtt
    /\ vniToVnState' = [vniToVnState EXCEPT ![vni].cache[n] = NoAtt]
    /\ nsnToVNIs' = removeSeenInVNI(nsnToVNIs, n, vniToVnState[vni].cache[n].vni)
    /\ queue' = QAdd(queue, n)
    /\ UNCHANGED << envVars, fabricVars, localCache, nsnToVNStateVNI, ifcVars, main, wk >>

\* --------------------------------------------------- start-up (Run)

\* a fabric or store call returns an error: any call may
CallFails == TRUE

\* the attachments of a cache whose MAC index entry is mac
ByIndex(cache, mac) ==
    {n \in Names : cache[n] # NoAtt /\ attachmentMACAddr(cache[n]) = mac}

ListLocalIfcs ==
    /\ main.pc = "listLocal"
    /\ \/ /\ main' = [main EXCEPT !.pc = "syncLocal", !.todo = localIfcs,
                                  !.listed = localIfcs]
          /\ UNCHANGED queue
       \/ /\ CallFails
          /\ main' = [main EXCEPT !.pc = "failed"]
          /\ queue' = [queue EXCEPT !.shut = TRUE]
    /\ UNCHANGED << store, events, fabricVars, localCache, vniToVnState,
                    nsnToVNStateVNI, ifcVars, nsnToVNIs, wk >>

\* a start-up delete loop on interface del,
\*   for i, err := 1, Delete(del); err != nil; i++ { Sleep(netFabricRetryPeriod) }
\* the init statement invokes the delete; when it succeeds the loop is not
\* entered, when it fails err is never assigned again
DeleteAtStartup(del, isLocal, rest) ==
    \/ /\ localIfcs' = IF isLocal THEN localIfcs \ {del} ELSE localIfcs
       /\ remoteIfcs' = IF isLocal THEN remoteIfcs ELSE remoteIfcs \ {del}
       /\ main' = [main EXCEPT !.todo = rest, !.invoked = @ \cup {del}]
    \/ /\ CallFails
       /\ main' = [main EXCEPT !.pc = "deleteLoop", !.todo = rest, !.target = del,
                               !.i = 1, !.calls = 1, !.invoked = @ \cup {del}]
       /\ UNCHANGED fabricVars

\* one iteration of a start-up delete loop whose delete failed: the body
\* sleeps, the post statement increments i, the condition reads the same err
netFabricRetrySleep ==
    /\ main.pc = "deleteLoop"
    /\ main.i <= MaxSleeps
    /\ main' = [main EXCEPT !.i = @ + 1]
    /\ UNCHANGED << envVars, fabricVars, localCache, vniToVnState, nsnToVNStateVNI,
                    ifcVars, nsnToVNIs, queue, wk >>

\* a syncPreExistingLocalIfcs that keeps the interfaces it cannot match
syncPreExistingLocalIfcsKeepsOrphans(ifc) ==
    LET ifcOwnerAtts == ByIndex(localCache, MACString(ifc.GuestMAC))
        rest == main.todo \ {ifc}
    IN
    /\ main.pc = "syncLocal"
    /\ ifc \in main.todo
    /\ IF Cardinality(ifcOwnerAtts) = 1
       THEN LET nsn == CHOOSE n \in ifcOwnerAtts : TRUE
                oldIfc == nsnToLocalIfc[nsn]
            IN /\ nsnToLocalIfc' = [nsnToLocalIfc EXCEPT ![nsn] = ifc]
               /\ IF oldIfc # NoIfc
                  THEN DeleteAtStartup(oldIfc, TRUE, rest)
                  ELSE /\ main' = [main EXCEPT !.todo = rest]
                       /\ UNCHANGED fabricVars
       ELSE /\ main' = [main EXCEPT !.todo = rest]
            /\ UNCHANGED << fabricVars, nsnToLocalIfc >>
    /\ UNCHANGED << store, events, localCache, vniToVnState, nsnToVNStateVNI,
                    nsnToRemoteIfc, nsnToVNIs, queue, wk >>

\* one iteration of the loop of syncPreExistingLocalIfcs
syncPreExistingLocalIfcs(ifc) ==
    LET ifcOwnerAtts == ByIndex(localCache, MACString(ifc.GuestMAC))
        rest == main.todo \ {ifc}
    IN
    /\ main.pc = "syncLocal"
    /\ ifc \in main.todo
    /\ IF Cardinality(ifcOwnerAtts) = 1
       THEN LET nsn == CHOOSE n \in ifcOwnerAtts : TRUE
                oldIfc == nsnToLocalIfc[nsn]
            IN /\ nsnToLocalIfc' = [nsnToLocalIfc EXCEPT ![nsn] = ifc]
               /\ IF oldIfc # NoIfc
                  THEN DeleteAtStartup(oldIfc, TRUE, rest)
                  ELSE /\ main' = [main EXCEPT !.todo = rest]
                       /\ UNCHANGED fabricVars
       ELSE /\ DeleteAtStartup(ifc, TRUE, rest)
            /\ UNCHANGED nsnToLocalIfc
    /\ UNCHANGED << store, events, localCache, vniToVnState, nsnToVNStateVNI,
                    nsnToRemoteIfc, nsnToVNIs, queue, wk >>

\* updateVNStateForExistingAtt(nsn, true, vni) for every attachment of S
RECURSIVE AddLocalAtts(_, _, _)
AddLocalAtts(st, cache, S) ==
    IF S = {} THEN st
    ELSE LET n == CHOOSE x \in S : TRUE
             u == updateVNStateForExistingAttLocked(st.reg, n, TRUE, cache[n].vni)
         IN AddLocalAtts([reg |-> u.reg,
                          vmap |-> updateVNStateForExistingAttDeferred(
                                       st.vmap, n, cache[n].vni, u)],
                         cache, S \ {n})

\* the head of syncPreExistingRemoteIfcs: the vnState of every local
\* attachment is set up, then the remote interfaces are listed
startRemoteAttsInformers ==
    LET allLocalAtts == {n \in Names : localCache[n] # NoAtt}
        st == AddLocalAtts([reg |-> vniToVnState, vmap |-> nsnToVNStateVNI],
                           localCache, allLocalAtts)
    IN
    /\ main.pc = "syncLocal"
    /\ main.todo = {}
    /\ vniToVnState' = st.reg
    /\ nsnToVNStateVNI' = st.vmap
    /\ \/ /\ main' = [main EXCEPT !.pc = "syncRemote", !.todo = remoteIfcs]
          /\ UNCHANGED queue
       \/ /\ CallFails
          /\ main' = [main EXCEPT !.pc = "failed"]
          /\ queue' = [queue EXCEPT !.shut = TRUE]
    /\ UNCHANGED << store, events, fabricVars, localCache, ifcVars, nsnToVNIs, wk >>

\* a remote pass that does not wait for the remote cache to sync
syncPreExistingRemoteIfcsNoWait(ifc) ==
    LET vnState == vniToVnState[ifc.VNI]
        ifcOwnerAtts == IF vnState # NoVnState
                        THEN ByIndex(vnState.cache, MACString(ifc.GuestMAC))
                        ELSE {}
        rest == main.todo \ {ifc}
    IN
    /\ main.pc = "syncRemote"
    /\ ifc \in main.todo
    /\ IF Cardinality(ifcOwnerAtts) = 1
       THEN LET nsn == CHOOSE n \in ifcOwnerAtts : TRUE
                oldRemoteIfc == nsnToRemoteIfc[nsn]
                oldLocalIfc == nsnToLocalIfc[nsn]
            IN /\ nsnToRemoteIfc' = [nsnToRemoteIfc EXCEPT ![nsn] = ifc]
               /\ IF oldRemoteIfc # NoIfc
                  THEN DeleteAtStartup(oldRemoteIfc, FALSE, rest)
                  ELSE IF oldLocalIfc # NoIfc
                  THEN DeleteAtStartup(oldLocalIfc, TRUE, rest)
                  ELSE /\ main' = [main EXCEPT !.todo = rest]
                       /\ UNCHANGED fabricVars
       ELSE /\ DeleteAtStartup(ifc, FALSE, rest)
            /\ UNCHANGED nsnToRemoteIfc
    /\ UNCHANGED << store, events, localCache, vniToVnState, nsnToVNStateVNI,
                    nsnToLocalIfc, nsnToVNIs, queue, wk >>

\* one iteration of the loop of syncPreExistingRemoteIfcs
syncPreExistingRemoteIfcs(ifc) ==
    LET vnState == vniToVnState[ifc.VNI]
        ifcOwnerAtts == IF vnState # NoVnState
                        THEN ByIndex(vnState.cache, MACString(ifc.GuestMAC))
                        ELSE {}
        rest == main.todo \ {ifc}
    IN
    /\ main.pc = "syncRemote"
    /\ ifc \in main.todo
    /\ vnState # NoVnState => vnState.synced
    /\ IF Cardinality(ifcOwnerAtts) = 1
       THEN LET nsn == CHOOSE n \in ifcOwnerAtts : TRUE
                oldRemoteIfc == nsnToRemoteIfc[nsn]
                oldLocalIfc == nsnToLocalIfc[nsn]
            IN /\ nsnToRemoteIfc' = [nsnToRemoteIfc EXCEPT ![nsn] = ifc]
               /\ IF oldRemoteIfc # NoIfc
                  THEN DeleteAtStartup(oldRemoteIfc, FALSE, rest)
                  ELSE IF oldLocalIfc # NoIfc
                  THEN DeleteAtStartup(oldLocalIfc, TRUE, rest)
                  ELSE /\ main' = [main EXCEPT !.todo = rest]
                       /\ UNCHANGED fabricVars
       ELSE /\ DeleteAtStartup(ifc, FALSE, rest)
            /\ UNCHANGED nsnToRemoteIfc
    /\ UNCHANGED << store, events, localCache, vniToVnState, nsnToVNStateVNI,
                    nsnToLocalIfc, nsnToVNIs, queue, wk >>

\* a Run that launches the workers while the remote pass is under way
launchWorkersDuringRemotePass ==
    /\ main.pc = "syncRemote"
    /\ main' = [main EXCEPT !.pc = "running", !.listed = {}, !.invoked = {}]
    /\ UNCHANGED << envVars, fabricVars, localCache, vniToVnState, nsnToVNStateVNI,
                    ifcVars, nsnToVNIs, queue, wk >>

\* syncPreExistingIfcs has returned: Run launches the workers
launchWorkers ==
    /\ main.pc = "syncRemote"
    /\ main.todo = {}
    /\ main' = [main EXCEPT !.pc = "running", !.listed = {}, !.invoked = {}]
    /\ UNCHANGED << envVars, fabricVars, localCache, vniToVnState, nsnToVNStateVNI,
                    ifcVars, nsnToVNIs, queue, wk >>

\* ------------------------------------------------------- the workers

Idle ==
    [pc |-> "idle", item |-> "", att |-> NoAtt, vns |-> NoVnState, vni |-> NoVNI,
     cont |-> ""]

\* getAttSeenInVNI: the only VNI (NoVNI unless there is exactly one) and
\* the number of VNIs
getAttSeenInVNI(nsn) ==
    [onlyVNI |-> IF Cardinality(nsnToVNIs[nsn]) = 1
                 THEN CHOOSE v \in nsnToVNIs[nsn] : TRUE ELSE NoVNI,
     nbrOfVNIs |-> Cardinality(nsnToVNIs[nsn])]

\* a getAttachment that reports an attachment seen in several VNIs as
\* deleted
getAttachmentDeletesIfSeveralVNIs(attNSN) ==
    LET seen == getAttSeenInVNI(attNSN)
        attAsRemote == IF seen.nbrOfVNIs = 1 /\ vniToVnState[seen.onlyVNI] # NoVnState
                       THEN vniToVnState[seen.onlyVNI].cache[attNSN]
                       ELSE NoAtt
        attAsLocal == localCache[attNSN]
    IN IF attAsLocal # NoAtt /\ attAsRemote = NoAtt
       THEN [att |-> attAsLocal, deleted |-> FALSE]
       ELSE IF attAsLocal = NoAtt /\ attAsRemote # NoAtt
            THEN [att |-> attAsRemote, deleted |-> FALSE]
       ELSE [att |-> NoAtt, deleted |-> TRUE]

\* getAttachment: the attachment (NoAtt for nil) and the deleted flag. Only
\* the cases of the switch that find the attachment in exactly one cache
\* return from inside the switch; the case that finds it in both caches
\* logs and leaves the switch, and so ends in the final return with the case
\* that finds it in no cache.
getAttachment(attNSN) ==
    LET seen == getAttSeenInVNI(attNSN)
        attAsRemote == IF seen.nbrOfVNIs = 1 /\ vniToVnState[seen.onlyVNI] # NoVnState
                       THEN vniToVnState[seen.onlyVNI].cache[attNSN]
                       ELSE NoAtt
        attAsLocal == localCache[attNSN]
    IN IF seen.nbrOfVNIs > 1 THEN [att |-> NoAtt, deleted |-> FALSE]
       ELSE IF attAsLocal # NoAtt /\ attAsRemote = NoAtt
            THEN [att |-> attAsLocal, deleted |-> FALSE]
       ELSE IF attAsLocal = NoAtt /\ attAsRemote # NoAtt
            THEN [att |-> attAsRemote, deleted |-> FALSE]
       ELSE [att |-> NoAtt, deleted |-> TRUE]

\* a return of processQueueItem that leaves out the deferred Done
ReturnSkipsDone(w, q, err) ==
    /\ queue' = (IF err THEN QAddRateLimited(q, wk[w].item) ELSE QForget(q, wk[w].item))
    /\ wk' = [wk EXCEPT ![w] = Idle]

\* processQueueItem returns: the worker is back in queue.Get
Return(w, q, err) ==
    /\ queue' = EndItem(q, wk[w].item, err)
    /\ wk' = [wk EXCEPT ![w] = Idle]

\* a worker takes an item off the queue and resolves its attachment; an
\* attachment seen in more than one VNI ends the item at once
processQueueItem(w, attNSN) ==
    LET got == getAttachment(attNSN) IN
    /\ main.pc = "running"
    /\ wk[w].pc = "idle"
    /\ attNSN \in queue.queue
    /\ IF got.att # NoAtt
       THEN /\ queue' = QGet(queue, attNSN)
            /\ wk' = [wk EXCEPT ![w] = [Idle EXCEPT !.pc = "exist", !.item = attNSN,
                                                    !.att = got.att]]
       ELSE IF got.deleted
       THEN /\ queue' = QGet(queue, attNSN)
            /\ wk' = [wk EXCEPT ![w] = [Idle EXCEPT !.pc = "deleted", !.item = attNSN]]
       ELSE /\ queue' = EndItem(QGet(queue, attNSN), attNSN, FALSE)
            /\ UNCHANGED wk
    /\ UNCHANGED << envVars, fabricVars, localCache, vniToVnState, nsnToVNStateVNI,
                    ifcVars, nsnToVNIs, main >>

\* updateVNStateForExistingAtt as processExistingAtt uses it, from registry
\* reg and map vmap: a vnState handed back is cleared next, an attachment
\* without vnState is processed as deleted, otherwise the interface follows
ExistingAttVNState(w, reg, vmap) ==
    LET attNSN == wk[w].item
        att == wk[w].att
        u == updateVNStateForExistingAttLocked(reg, attNSN, att.node = localNodeName,
                                               att.vni)
    IN
    /\ vniToVnState' = u.reg
    /\ nsnToVNStateVNI' = updateVNStateForExistingAttDeferred(vmap, attNSN, att.vni, u)
    /\ IF u.ret # NoVnState
       THEN /\ wk' = [wk EXCEPT ![w].pc = "clear", ![w].vns = u.ret,
                                ![w].vni = att.vni, ![w].cont = "return"]
            /\ UNCHANGED nsnToVNIs
       ELSE IF u.noVn
       THEN /\ wk' = [wk EXCEPT ![w].pc = "deleted"]
            /\ nsnToVNIs' = removeSeenInVNI(nsnToVNIs, attNSN, att.vni)
       ELSE /\ wk' = [wk EXCEPT ![w].pc = "ifc"]
            /\ UNCHANGED nsnToVNIs

\* processExistingAtt, up to the return of updateVNState or to the vnState
\* that the departure from the old VNI hands back
processExistingAtt(w) ==
    LET attNSN == wk[w].item
        attOldVNI == nsnToVNStateVNI[attNSN]
        r == removeAttFromVNState(vniToVnState, attNSN, attOldVNI)
    IN
    /\ wk[w].pc = "exist"
    /\ IF attOldVNI # NoVNI /\ attOldVNI # wk[w].att.vni
       THEN IF r.ret # NoVnState
            THEN /\ vniToVnState' = r.reg
                 /\ wk' = [wk EXCEPT ![w].pc = "clear", ![w].vns = r.ret,
                                     ![w].vni = attOldVNI, ![w].cont = "exist"]
                 /\ UNCHANGED << nsnToVNStateVNI, nsnToVNIs >>
            ELSE ExistingAttVNState(w, r.reg, [nsnToVNStateVNI EXCEPT ![attNSN] = NoVNI])
       ELSE ExistingAttVNState(w, vniToVnState, nsnToVNStateVNI)
    /\ UNCHANGED << envVars, fabricVars, localCache, ifcVars, queue, main >>

\* updateVNState resumes after the old VNI's vnState has been cleared
updateVNState(w) ==
    /\ wk[w].pc = "exist2"
    /\ ExistingAttVNState(w, vniToVnState, nsnToVNStateVNI)
    /\ UNCHANGED << envVars, fabricVars, localCache, ifcVars, queue, main >>

\* a processDeletedAtt that unsets the registry entry whether or not the
\* fabric has deleted the interface
DeleteIfcOfDeletedAttUnsetsOnError(w, q) ==
    LET attNSN == wk[w].item
        localIfc == nsnToLocalIfc[attNSN]
        remoteIfc == nsnToRemoteIfc[attNSN]
    IN
    IF localIfc # NoIfc
    THEN \/ /\ localIfcs' = localIfcs \ {localIfc}
            /\ nsnToLocalIfc' = [nsnToLocalIfc EXCEPT ![attNSN] = NoIfc]
            /\ Return(w, q, FALSE)
            /\ UNCHANGED << remoteIfcs, nsnToRemoteIfc >>
         \/ /\ CallFails
            /\ nsnToLocalIfc' = [nsnToLocalIfc EXCEPT ![attNSN] = NoIfc]
            /\ Return(w, q, TRUE)
            /\ UNCHANGED << fabricVars, nsnToRemoteIfc >>
    ELSE IF remoteIfc # NoIfc
    THEN \/ /\ remoteIfcs' = remoteIfcs \ {remoteIfc}
            /\ nsnToRemoteIfc' = [nsnToRemoteIfc EXCEPT ![attNSN] = NoIfc]
            /\ Return(w, q, FALSE)
            /\ UNCHANGED << localIfcs, nsnToLocalIfc >>
         \/ /\ CallFails
            /\ nsnToRemoteIfc' = [nsnToRemoteIfc EXCEPT ![attNSN] = NoIfc]
            /\ Return(w, q, TRUE)
            /\ UNCHANGED << fabricVars, nsnToLocalIfc >>
    ELSE /\ Return(w, q, FALSE)
         /\ UNCHANGED << fabricVars, ifcVars >>

\* the fabric part of processDeletedAtt, from queue q
DeleteIfcOfDeletedAtt(w, q) ==
    LET attNSN == wk[w].item
        localIfc == nsnToLocalIfc[attNSN]
        remoteIfc == nsnToRemoteIfc[attNSN]
    IN
    IF localIfc # NoIfc
    THEN \/ /\ localIfcs' = localIfcs \ {localIfc}
            /\ nsnToLocalIfc' = [nsnToLocalIfc EXCEPT ![attNSN] = NoIfc]
            /\ Return(w, q, FALSE)
            /\ UNCHANGED << remoteIfcs, nsnToRemoteIfc >>
         \/ /\ CallFails
            /\ Return(w, q, TRUE)
            /\ UNCHANGED << fabricVars, ifcVars >>
    ELSE IF remoteIfc # NoIfc
    THEN \/ /\ remoteIfcs' = remoteIfcs \ {remoteIfc}
            /\ nsnToRemoteIfc' = [nsnToRemoteIfc EXCEPT ![attNSN] = NoIfc]
            /\ Return(w, q, FALSE)
            /\ UNCHANGED << localIfcs, nsnToLocalIfc >>
         \/ /\ CallFails
            /\ Return(w, q, TRUE)
            /\ UNCHANGED << fabricVars, ifcVars >>
    ELSE /\ Return(w, q, FALSE)
         /\ UNCHANGED << fabricVars, ifcVars >>

processDeletedAtt(w) ==
    LET attNSN == wk[w].item
        vnStateVNI == nsnToVNStateVNI[attNSN]
        r == removeAttFromVNState(vniToVnState, attNSN, vnStateVNI)
    IN
    /\ wk[w].pc = "deleted"
    /\ IF vnStateVNI # NoVNI
       THEN IF r.ret # NoVnState
            THEN /\ vniToVnState' = r.reg
                 /\ wk' = [wk EXCEPT ![w].pc = "clear", ![w].vns = r.ret,
                                     ![w].vni = vnStateVNI, ![w].cont = "deleted"]
                 /\ UNCHANGED << nsnToVNStateVNI, fabricVars, ifcVars, queue >>
            ELSE /\ vniToVnState' = r.reg
                 /\ nsnToVNStateVNI' = [nsnToVNStateVNI EXCEPT ![attNSN] = NoVNI]
                 /\ DeleteIfcOfDeletedAtt(w, queue)
       ELSE /\ DeleteIfcOfDeletedAtt(w, queue)
            /\ UNCHANGED << vniToVnState, nsnToVNStateVNI >>
    /\ UNCHANGED << store, events, localCache, nsnToVNIs, main >>

\* processDeletedAtt resumes after the vnState has been cleared
deleteIfcOfDeletedAtt(w) ==
    /\ wk[w].pc = "delIfc"
    /\ DeleteIfcOfDeletedAtt(w, queue)
    /\ UNCHANGED << store, events, localCache, vniToVnState, nsnToVNStateVNI,
                    nsnToVNIs, main >>

\* a clearVNResources that enqueues the remote attachments and leaves
\* their tracker entries alone
clearVNResourcesKeepsSeenInVNI(w) ==
    LET vnState == wk[w].vns
        q1 == QAddAll(queue, vnState.remoteAtts)
    IN
    /\ wk[w].pc = "clear"
    /\ UNCHANGED nsnToVNIs
    /\ IF wk[w].cont = "return"
       THEN /\ Return(w, q1, FALSE)
            /\ UNCHANGED nsnToVNStateVNI
       ELSE /\ queue' = q1
            /\ nsnToVNStateVNI' = [nsnToVNStateVNI EXCEPT ![wk[w].item] = NoVNI]
            /\ wk' = [wk EXCEPT ![w].pc = IF wk[w].cont = "exist" THEN "exist2"
                                          ELSE "delIfc",
                                ![w].vns = NoVnState, ![w].vni = NoVNI, ![w].cont = ""]
    /\ UNCHANGED << envVars, fabricVars, localCache, vniToVnState, ifcVars, main >>

\* clearVNResources on the vnState the worker has been handed, and the
\* statements that follow the call up to the next call that blocks
clearVNResources(w) ==
    LET vnState == wk[w].vns
        q1 == QAddAll(queue, vnState.remoteAtts)
    IN
    /\ wk[w].pc = "clear"
    /\ nsnToVNIs' = removeSeenInVNIAll(nsnToVNIs, vnState.remoteAtts, wk[w].vni)
    /\ IF wk[w].cont = "return"
       THEN /\ Return(w, q1, FALSE)
            /\ UNCHANGED nsnToVNStateVNI
       ELSE /\ queue' = q1
            /\ nsnToVNStateVNI' = [nsnToVNStateVNI EXCEPT ![wk[w].item] = NoVNI]
            /\ wk' = [wk EXCEPT ![w].pc = IF wk[w].cont = "exist" THEN "exist2"
                                          ELSE "delIfc",
                                ![w].vns = NoVnState, ![w].vni = NoVNI, ![w].cont = ""]
    /\ UNCHANGED << envVars, fabricVars, localCache, vniToVnState, ifcVars, main >>

\* the host IP createOrUpdateIfc is called with
attHostIPOf(att) ==
    IF att.node = localNodeName THEN hostIP ELSE ParseIP(att.hostIP)

\* the LocalNetIfc literal of createOrUpdateIfc: Name, VNI, GuestMAC and
\* HostIP are set, GuestIP is left out
newLocalIfc(attMAC, attGuestIP, attHostIP, attVNI) ==
    LocalNetIfc(generateIfcName(attMAC), attVNI, attMAC, NilIP, attHostIP)

\* a RemoteNetIfc literal that takes the host IP of this node
newRemoteIfcOnThisHost(attMAC, attGuestIP, attHostIP, attVNI) ==
    RemoteNetIfc(attVNI, attMAC, NilIP, hostIP)

\* the RemoteNetIfc literal of createOrUpdateIfc: VNI, GuestMAC and HostIP
\* are set, GuestIP is left out
newRemoteIfc(attMAC, attGuestIP, attHostIP, attVNI) ==
    RemoteNetIfc(attVNI, attMAC, NilIP, attHostIP)

newIfcNeedsToBeCreated(oldLocalIfc, oldRemoteIfc, attHostIP, attMAC) ==
    \/ oldLocalIfc = NoIfc /\ oldRemoteIfc = NoIfc
    \/ /\ oldLocalIfc # NoIfc
       /\ ifcNeedsUpdate(oldLocalIfc.HostIP, attHostIP, oldLocalIfc.GuestMAC, attMAC)
    \/ /\ oldRemoteIfc # NoIfc
       /\ ifcNeedsUpdate(oldRemoteIfc.HostIP, attHostIP, oldRemoteIfc.GuestMAC, attMAC)

\* a setAttStatus that also rebinds the copy to the other node
setAttStatusRebinds(att, ifcName) ==
    [att EXCEPT !.hostIP = IPString(hostIP), !.ifcName = ifcName,
                !.node = otherNodeName]

\* setAttStatus: the copy of the attachment that is sent to the store
setAttStatus(att, ifcName) ==
    [att EXCEPT !.hostIP = IPString(hostIP), !.ifcName = ifcName]

\* a status test that writes the status of every local attachment
statusNeedsUpdateAlways(att, newLocalIfcName) ==
    att.node = localNodeName

\* a status test without the test of the attachment's node
statusNeedsUpdateAnyNode(att, newLocalIfcName) ==
    \/ att.hostIP # IPString(hostIP)
    \/ newLocalIfcName # "" /\ newLocalIfcName # att.ifcName

\* the test of processExistingAtt that decides whether the status is written
statusNeedsUpdate(att, newLocalIfcName) ==
    /\ att.node = localNodeName
    /\ \/ att.hostIP # IPString(hostIP)
       \/ newLocalIfcName # "" /\ newLocalIfcName # att.ifcName

\* a status write-back that takes a refused update for a written one
StatusWriteBackDropsConflict(w, newLocalIfcName) ==
    LET attNSN == wk[w].item
        att == wk[w].att
    IN
    IF statusNeedsUpdate(att, newLocalIfcName)
    THEN \/ /\ store[attNSN] = att
            /\ store' = [store EXCEPT ![attNSN] = setAttStatus(att, newLocalIfcName)]
            /\ Return(w, queue, FALSE)
         \/ /\ store[attNSN] # att
            /\ Return(w, queue, FALSE)
            /\ UNCHANGED store
         \/ /\ CallFails
            /\ Return(w, queue, TRUE)
            /\ UNCHANGED store
    ELSE /\ Return(w, queue, FALSE)
         /\ UNCHANGED store

\* the tail of processExistingAtt: the status write-back. The store accepts
\* the update when the copy it was made from is the stored version
StatusWriteBack(w, newLocalIfcName) ==
    LET attNSN == wk[w].item
        att == wk[w].att
    IN
    IF statusNeedsUpdate(att, newLocalIfcName)
    THEN \/ /\ store[attNSN] = att
            /\ store' = [store EXCEPT ![attNSN] = setAttStatus(att, newLocalIfcName)]
            /\ Return(w, queue, FALSE)
         \/ /\ store[attNSN] # att
            /\ Return(w, queue, TRUE)
            /\ UNCHANGED store
         \/ /\ CallFails
            /\ Return(w, queue, TRUE)
            /\ UNCHANGED store
    ELSE /\ Return(w, queue, FALSE)
         /\ UNCHANGED store

\* createOrUpdateIfc and the status write-back that follows it in
\* processExistingAtt. The old interface, if one has to be replaced, is
\* deleted and unregistered first; either fabric call may return an error,
\* which ends the item with a requeue
createOrUpdateIfc(w) ==
    LET attNSN == wk[w].item
        att == wk[w].att
        attGuestIP == ParseIP(att.ip)
        attHostIP == attHostIPOf(att)
        attMAC == generateMACAddr(att.vni, attGuestIP)
        oldLocalIfc == nsnToLocalIfc[attNSN]
        oldRemoteIfc == nsnToRemoteIfc[attNSN]
        attHasLocalIfc == oldLocalIfc # NoIfc
        attHasRemoteIfc == oldLocalIfc = NoIfc /\ oldRemoteIfc # NoIfc
        isLocal == IPEqual(attHostIP, hostIP)
        newIfc == IF isLocal THEN newLocalIfc(attMAC, attGuestIP, attHostIP, att.vni)
                  ELSE newRemoteIfc(attMAC, attGuestIP, attHostIP, att.vni)
        \* the fabric and the registry once the old interface is gone
        L1 == IF attHasLocalIfc THEN localIfcs \ {oldLocalIfc} ELSE localIfcs
        R1 == IF attHasRemoteIfc THEN remoteIfcs \ {oldRemoteIfc} ELSE remoteIfcs
        regL1 == IF attHasLocalIfc THEN [nsnToLocalIfc EXCEPT ![attNSN] = NoIfc]
                 ELSE nsnToLocalIfc
        regR1 == IF attHasRemoteIfc THEN [nsnToRemoteIfc EXCEPT ![attNSN] = NoIfc]
                 ELSE nsnToRemoteIfc
    IN
    /\ wk[w].pc = "ifc"
    /\ IF newIfcNeedsToBeCreated(oldLocalIfc, oldRemoteIfc, attHostIP, attMAC)
       THEN \/ /\ CallFails
               /\ attHasLocalIfc \/ attHasRemoteIfc
               /\ Return(w, queue, TRUE)
               /\ UNCHANGED << store, fabricVars, ifcVars >>
            \/ /\ CallFails
               /\ localIfcs' = L1
               /\ remoteIfcs' = R1
               /\ nsnToLocalIfc' = regL1
               /\ nsnToRemoteIfc' = regR1
               /\ Return(w, queue, TRUE)
               /\ UNCHANGED store
            \/ /\ isLocal
               /\ localIfcs' = L1 \cup {newIfc}
               /\ remoteIfcs' = R1
               /\ nsnToLocalIfc' = [regL1 EXCEPT ![attNSN] = newIfc]
               /\ nsnToRemoteIfc' = regR1
               /\ StatusWriteBack(w, newIfc.Name)
            \/ /\ ~isLocal
               /\ localIfcs' = L1
               /\ remoteIfcs' = R1 \cup {newIfc}
               /\ nsnToLocalIfc' = regL1
               /\ nsnToRemoteIfc' = [regR1 EXCEPT ![attNSN] = newIfc]
               /\ StatusWriteBack(w, "")
       ELSE /\ StatusWriteBack(w, "")
            /\ UNCHANGED << fabricVars, ifcVars >>
    /\ UNCHANGED << events, localCache, vniToVnState, nsnToVNStateVNI, nsnToVNIs, main >>

\* the rate limiter's delay of an item has passed: the item is added
AddAfter(n) ==
    /\ n \in queue.delayed
    /\ queue' = QAdd([queue EXCEPT !.delayed = @ \ {n}], n)
    /\ UNCHANGED << envVars, fabricVars, localCache, vniToVnState, nsnToVNStateVNI,
                    ifcVars, nsnToVNIs, main, wk >>

\* ------------------------------------------------- the specification

macOf(vni, ip) == generateMACAddr(vni, ParseIP(ip))

\* local interfaces the fabric may hold before the agent starts: the one
\* of attachment a in VNI 1, and a second one with the same MAC
PreLocalIfcs ==
    { LocalNetIfc(generateIfcName(macOf(1, "10.0.0.5")), 1, macOf(1, "10.0.0.5"),
                  ParseIP("10.0.0.5"), hostIP),
      LocalNetIfc("kosstale", 1, macOf(1, "14.0.0.5"), ParseIP("14.0.0.5"), hostIP) }

\* remote interfaces the fabric may hold before the agent starts; the MAC
\* of the interface is the MAC of 10.0.0.5 in VNI 1 as well
PreRemoteIfcs ==
    { RemoteNetIfc(1, macOf(1, "14.0.0.5"), ParseIP("14.0.0.5"), otherHostIP) }

\* the attachments the store may hold before the agent starts: none, or
\* attachment b in VNI 1, bound to this node or to the other one
InitStores ==
    { [n \in Names |-> NoAtt],
      [n \in Names |-> IF n = "b" THEN Att(localNodeName, 1, "10.0.0.6", "", "")
                       ELSE NoAtt],
      [n \in Names |-> IF n = "b"
                       THEN otherAgentStatus(Att(otherNodeName, 1, "10.0.0.6", "", ""))
                       ELSE NoAtt] }

\* the fabric's guarantees: names and (VNI, guest IP) pairs are unique
FabricContract(L, R) ==
    /\ \A x, y \in L : x.Name = y.Name => x = y
    /\ \A x, y \in L \cup R : (x.VNI = y.VNI /\ x.GuestIP = y.GuestIP) => x = y

Init ==
    /\ store \in InitStores
    /\ events = MaxEvents
    /\ localIfcs \in SUBSET PreLocalIfcs
    /\ remoteIfcs \in SUBSET PreRemoteIfcs
    /\ Cardinality(localIfcs) + Cardinality(remoteIfcs) <= MaxPreIfcs
    /\ FabricContract(localIfcs, remoteIfcs)
    /\ localCache = [n \in Names |-> NoAtt]
    /\ vniToVnState = [v \in VNIs |-> NoVnState]
    /\ nsnToVNStateVNI = [n \in Names |-> NoVNI]
    /\ nsnToLocalIfc = [n \in Names |-> NoIfc]
    /\ nsnToRemoteIfc = [n \in Names |-> NoIfc]
    /\ nsnToVNIs = [n \in Names |-> {}]
    /\ queue = [queue |-> {}, dirty |-> {}, processing |-> {}, delayed |-> {},
                failed |-> {}, shut |-> FALSE]
    /\ main = [pc |-> "waitSync", todo |-> {}, target |-> NoIfc, i |-> 0, calls |-> 0,
               listed |-> {}, invoked |-> {}]
    /\ wk = [w \in Workers |-> Idle]

Next ==
    \/ \E n \in Names : EnvCreate(n)
    \/ \E n \in Names : EnvDelete(n)
    \/ \E n \in Names : EnvSetNode(n)
    \/ \E n \in Names : EnvSetVNI(n)
    \/ \E n \in Names : EnvSetIP(n)
    \/ \E n \in Names : OtherAgentSetsStatus(n)
    \/ waitForLocalAttsCacheSync
    \/ waitForLocalAttsCacheSyncFails
    \/ \E n \in Names : onLocalAttAdded(n)
    \/ \E n \in Names : onLocalAttUpdated(n)
    \/ \E n \in Names : onLocalAttRemoved(n)
    \/ \E v \in VNIs : remoteAttsInformerSync(v)
    \/ \E v \in VNIs, n \in Names : onRemoteAttAdded(v, n)
    \/ \E v \in VNIs, n \in Names : onRemoteAttUpdated(v, n)
    \/ \E v \in VNIs, n \in Names : onRemoteAttRemoved(v, n)
    \/ ListLocalIfcs
    \/ \E ifc \in PreLocalIfcs : syncPreExistingLocalIfcs(ifc)
    \/ netFabricRetrySleep
    \/ startRemoteAttsInformers
    \/ \E ifc \in PreRemoteIfcs : syncPreExistingRemoteIfcs(ifc)
    \/ launchWorkers
    \/ \E w \in Workers, n \in Names : processQueueItem(w, n)
    \/ \E w \in Workers : processExistingAtt(w)
    \/ \E w \in Workers : updateVNState(w)
    \/ \E w \in Workers : processDeletedAtt(w)
    \/ \E w \in Workers : deleteIfcOfDeletedAtt(w)
    \/ \E w \in Workers : clearVNResources(w)
    \/ \E w \in Workers : createOrUpdateIfc(w)
    \/ \E n \in Names : AddAfter(n)

Spec == Init /\ [][Next]_vars

\* ------------------------------------------------------- properties

\* nothing is pending: start-up is over, every cache shows the store, the
\* other node's agent has written its status, the queue is empty and every
\* worker waits in queue.Get
Quiescent ==
    /\ main.pc = "running"
    /\ \A w \in Workers : wk[w].pc = "idle"
    /\ queue.queue = {} /\ queue.delayed = {} /\ queue.dirty = {}
    /\ \A n \in Names : localCache[n] = LocalView(store[n])
    /\ \A v \in VNIs : vniToVnState[v] # NoVnState =>
          /\ vniToVnState[v].synced
          /\ \A n \in Names : vniToVnState[v].cache[n] = RemoteView(v, store[n])
    /\ \A n \in Names : (store[n] # NoAtt /\ store[n].node = otherNodeName)
                           => store[n] = otherAgentStatus(store[n])

\* attachment n is in the remote attachments cache of a registered vnState
InRemoteCache(n) ==
    \E v \in VNIs : vniToVnState[v] # NoVnState /\ vniToVnState[v].cache[n] # NoAtt

\* the identities with an interface of each kind in the registry
WithLocalIfc == {n \in Names : nsnToLocalIfc[n] # NoIfc}
WithRemoteIfc == {n \in Names : nsnToRemoteIfc[n] # NoIfc}

\* C1: no identity is registered in nsnToLocalIfc and in nsnToRemoteIfc at
\* the same time.
C1_NoIdentityInBothRegistries ==
    \A n \in Names : ~(nsnToLocalIfc[n] # NoIfc /\ nsnToRemoteIfc[n] # NoIfc)

\* C2: at quiescence the registered interfaces are exactly one local
\* interface per attachment of the local cache and one remote interface per
\* attachment of the remote cache of a registered vnState, and the fabric
\* holds exactly the registered interfaces.
C2_QuiescentInterfacesMatchCaches ==
    Quiescent =>
        /\ \A n \in Names : (localCache[n] # NoAtt) <=> (n \in WithLocalIfc)
        /\ \A n \in Names : InRemoteCache(n) <=> (n \in WithRemoteIfc)
        /\ localIfcs = {nsnToLocalIfc[n] : n \in WithLocalIfc}
        /\ remoteIfcs = {nsnToRemoteIfc[n] : n \in WithRemoteIfc}

\* attachment n is found in the local cache and in the remote cache of the
\* only VNI it is tracked in
Ambiguous(n) ==
    /\ localCache[n] # NoAtt
    /\ \E v \in VNIs : /\ nsnToVNIs[n] = {v}
                       /\ vniToVnState[v] # NoVnState
                       /\ vniToVnState[v].cache[n] # NoAtt

AmbiguousItemTakesNoAction ==
    \A n \in Names :
       (Ambiguous(n) /\ n \in queue.queue /\ n \notin queue'.queue)
       => /\ UNCHANGED << store, fabricVars, ifcVars, vniToVnState, nsnToVNStateVNI,
                          nsnToVNIs >>
          /\ \A w \in Workers : wk'[w].item # n
          /\ queue'.delayed = queue.delayed
          /\ n \notin queue'.processing

\* C3: when a worker takes from the queue an identity that is in the local
\* cache and in the remote cache of its only tracked VNI, the step calls no
\* fabric operation, changes no registry, vnState or tracker entry, writes
\* nothing to the store, and ends the item without a requeue: no worker goes
\* on to process the identity.
C3_AmbiguousNoAction == [][AmbiguousItemTakesNoAction]_vars

\* identity n is queued, waits for the rate limiter, or is in the hands of
\* a worker that resolved it to its remote version
Pending(n) ==
    \/ n \in queue.queue \cup queue.dirty \cup queue.delayed
    \/ \E w \in Workers : /\ wk[w].item = n
                          /\ wk[w].att # NoAtt
                          /\ wk[w].att.node # localNodeName

\* no notification about identity n is still to come: the store has stopped
\* changing and every cache shows the stored version of n
Settled(n) ==
    /\ events = 0
    /\ store[n] # NoAtt => store[n] = otherAgentStatus(store[n])
    /\ localCache[n] = LocalView(store[n])
    /\ \A v \in VNIs : vniToVnState[v] # NoVnState =>
          /\ vniToVnState[v].synced
          /\ vniToVnState[v].cache[n] = RemoteView(v, store[n])

\* C4: an identity with a registered local interface that has left the
\* local cache and is in the remote cache of a registered vnState is still
\* going to be reconciled as a remote attachment (its local interface
\* replaced by a remote one): once no more notifications about it are to
\* come, it is queued, delayed, or being processed as that remote attachment.
C4_MovedIdentityStaysPending ==
    \A n \in Names, v \in VNIs :
       ( /\ main.pc = "running"
         /\ Settled(n)
         /\ nsnToLocalIfc[n] # NoIfc
         /\ localCache[n] = NoAtt
         /\ vniToVnState[v] # NoVnState
         /\ vniToVnState[v].cache[n] # NoAtt )
       => Pending(n)

\* C5: at quiescence a vnState is registered for VNI v exactly when the
\* local cache holds an attachment whose AddressVNI is v.
C5_QuiescentVNStateIffLocalAtt ==
    Quiescent =>
        \A v \in VNIs : (vniToVnState[v] # NoVnState) <=>
                        (\E n \in Names : localCache[n] # NoAtt /\ localCache[n].vni = v)

\* C6: every vnState in the registry has at least one local attachment.
C6_VNStateHasLocalAtt ==
    \A v \in VNIs : vniToVnState[v] # NoVnState => vniToVnState[v].localAtts # {}

\* a worker has taken the vnState of its VNI out of the registry because
\* the last local attachment left, and is about to clear it
C6_LastLocalAttLeft ==
    \E w \in Workers : /\ wk[w].pc = "clear"
                       /\ wk[w].vns.localAtts = {}
                       /\ vniToVnState[wk[w].vni] = NoVnState

\* C7: at quiescence nsnToVNIs holds at most one VNI per identity, and holds
\* VNI v for an identity exactly when the vnState of v is registered and its
\* remote cache contains the identity.
C7_QuiescentTrackerMatchesRemoteCaches ==
    Quiescent =>
        \A n \in Names :
           /\ Cardinality(nsnToVNIs[n]) <= 1
           /\ \A v \in VNIs : (v \in nsnToVNIs[n]) <=>
                 (vniToVnState[v] # NoVnState /\ vniToVnState[v].cache[n] # NoAtt)

\* C8: a start-up delete that failed is invoked again in every iteration of
\* its loop: at attempt number i the delete has been invoked i times.
C8_StartupDeleteIsRetried ==
    main.pc = "deleteLoop" => main.calls = main.i

\* the local pass of start-up has gone through every listed interface
EndOfLocalPass == main.pc = "syncLocal" /\ main.todo = {}

ListedIfcsRegisteredOrDeleted ==
    EndOfLocalPass =>
        /\ \A ifc \in main.listed :
              \/ \E n \in Names : nsnToLocalIfc[n] = ifc
              \/ ifc \in main.invoked
        /\ \A n \in Names : nsnToLocalIfc[n] # NoIfc => nsnToLocalIfc[n] \in main.listed

LocalIfcBoundToUniqueMatch ==
    \A n \in Names :
       (main.pc = "syncLocal" /\ nsnToLocalIfc'[n] # nsnToLocalIfc[n])
       => ByIndex(localCache, MACString(nsnToLocalIfc'[n].GuestMAC)) = {n}

\* DeleteLocalIfc is invoked in the local pass only on an interface without
\* a unique match or on the interface a new match displaces
LocalIfcDeletedIsOrphanOrDisplaced ==
    main.pc = "syncLocal" =>
       \A ifc \in main'.invoked \ main.invoked :
          \/ Cardinality(ByIndex(localCache, MACString(ifc.GuestMAC))) # 1
          \/ \E n \in Names : nsnToLocalIfc[n] = ifc /\ nsnToLocalIfc'[n] # ifc

\* C9: when the start-up pass over the listed local interfaces is over, each
\* listed interface is registered for an identity or has had DeleteLocalIfc
\* invoked on it, and only listed interfaces are registered (none when no
\* listed interface matched); an interface is registered for an identity
\* only in a step in which that identity is the only attachment of the local
\* cache whose MAC is the interface's GuestMAC, and the delete is invoked
\* only on interfaces with zero or several matches and on displaced ones.
C9_StartupLocalPass ==
    /\ [](ListedIfcsRegisteredOrDeleted)
    /\ [][LocalIfcBoundToUniqueMatch]_vars
    /\ [][LocalIfcDeletedIsOrphanOrDisplaced]_vars

\* the local pass is over, has registered an interface and has invoked the
\* delete of another one
C9_MatchedAndDeleted ==
    /\ EndOfLocalPass
    /\ \E n \in Names : nsnToLocalIfc[n] # NoIfc
    /\ main.invoked # {}

\* the interface the specification describes for a local attachment
ExpectedLocalIfc(att) ==
    LocalNetIfc(generateIfcName(generateMACAddr(att.vni, ParseIP(att.ip))), att.vni,
                generateMACAddr(att.vni, ParseIP(att.ip)), ParseIP(att.ip), hostIP)

\* the interface the specification describes for a remote attachment
ExpectedRemoteIfc(att) ==
    RemoteNetIfc(att.vni, generateMACAddr(att.vni, ParseIP(att.ip)), ParseIP(att.ip),
                 ParseIP(att.hostIP))

CreatedIfcIsExpected ==
    \A w \in Workers : (wk[w].pc = "ifc" /\ wk'[w] # wk[w]) =>
        /\ \A ifc \in localIfcs' \ localIfcs : ifc = ExpectedLocalIfc(wk[w].att)
        /\ \A ifc \in remoteIfcs' \ remoteIfcs : ifc = ExpectedRemoteIfc(wk[w].att)

\* C10: the interface a worker creates for an attachment has Name "kos" +
\* hex of the MAC, the attachment's VNI, GuestMAC derived from VNI and
\* Status.IPv4, GuestIP equal to Status.IPv4 and HostIP equal to this
\* node's host IP (local), respectively VNI, GuestMAC, GuestIP equal to
\* Status.IPv4 and HostIP equal to Status.HostIP (remote).
C10_CreatedIfcFields == [][CreatedIfcIsExpected]_vars

\* a worker's step that writes to the store: the status write-back of the
\* item the worker holds
WritesStatus(w) ==
    /\ wk[w].pc = "ifc"
    /\ wk'[w] # wk[w]
    /\ store'[wk[w].item] # store[wk[w].item]

StatusUpdateNamesIfc ==
    \A w \in Workers :
       WritesStatus(w) =>
          LET n == wk[w].item IN
          /\ store'[n].hostIP = IPString(hostIP)
          /\ nsnToLocalIfc'[n] # NoIfc
          /\ store'[n].ifcName = nsnToLocalIfc'[n].Name

\* C11: every status update a worker sends for a local attachment sets
\* Status.HostIP to this node's host IP and Status.IfcName to the name of
\* the local interface registered for the attachment, also when the
\* interface was registered by an earlier pass or by start-up.
C11_StatusUpdateNamesIfc == [][StatusUpdateNamesIfc]_vars

\* worker w is about to run createOrUpdateIfc on a converged local
\* attachment: its local interface is registered with this node's host IP
\* and the attachment's MAC, and its status names this host and that
\* interface
Converged(w) ==
    LET att == wk[w].att
        ifc == nsnToLocalIfc[wk[w].item]
    IN /\ wk[w].pc = "ifc"
       /\ att.node = localNodeName
       /\ ifc # NoIfc
       /\ IPEqual(ifc.HostIP, hostIP)
       /\ ifc.GuestMAC = generateMACAddr(att.vni, ParseIP(att.ip))
       /\ att.hostIP = IPString(hostIP)
       /\ att.ifcName = ifc.Name

ConvergedPassIsNoOp ==
    \A w \in Workers :
       (Converged(w) /\ wk'[w] # wk[w]) =>
          /\ UNCHANGED << store, fabricVars, ifcVars >>
          /\ queue'.delayed = queue.delayed

StatusUpdateKeepsOtherFields ==
    \A w \in Workers :
       WritesStatus(w) =>
          LET n == wk[w].item
              att == wk[w].att
          IN /\ store'[n].node = att.node
             /\ store'[n].vni = att.vni
             /\ store'[n].ip = att.ip
             /\ localCache' = localCache
             /\ \A v \in VNIs : vniToVnState[v] # NoVnState =>
                   vniToVnState'[v].cache = vniToVnState[v].cache

\* C13: the object a worker sends in a status update equals the attachment
\* it read from the cache in Spec.Node, Status.AddressVNI and Status.IPv4
\* (every field but Status.HostIP and Status.IfcName), and the step leaves
\* the cached objects as they are.
C13_StatusUpdateKeepsOtherFields == [][StatusUpdateKeepsOtherFields]_vars

\* the store holds a status update of this agent that the local cache has
\* not received yet
C13_StatusWritten ==
    \E n \in Names :
       /\ store[n] # NoAtt /\ localCache[n] # NoAtt
       /\ store[n] # localCache[n]
       /\ store[n].hostIP = IPString(hostIP)
       /\ store[n] = setAttStatus(localCache[n], store[n].ifcName)

\* worker w takes a step of the reconciliation of a remote attachment
RemotePassStep(w) ==
    /\ wk[w].att # NoAtt
    /\ wk[w].att.node # localNodeName
    /\ wk'[w] # wk[w]

RemotePassFrame ==
    \A w \in Workers :
       RemotePassStep(w) =>
          LET n == wk[w].item IN
          /\ store' = store
          /\ \A m \in Names \ {n} : /\ nsnToLocalIfc'[m] = nsnToLocalIfc[m]
                                     /\ nsnToRemoteIfc'[m] = nsnToRemoteIfc[m]
          /\ localIfcs \ localIfcs' \subseteq {nsnToLocalIfc[n]}
          /\ remoteIfcs \ remoteIfcs' \subseteq {nsnToRemoteIfc[n]}
          /\ localIfcs' \ localIfcs \subseteq {nsnToLocalIfc'[n]}
          /\ remoteIfcs' \ remoteIfcs \subseteq {nsnToRemoteIfc'[n]}

\* C14: no step of the reconciliation of a remote attachment writes to the
\* store, changes the registry entry of another identity, or removes from
\* or adds to the fabric an interface other than the identity's own.
C14_RemotePassFrame == [][RemotePassFrame]_vars

\* a worker has created the remote interface of one identity while another
\* identity has its local interface registered and in the fabric
C14_RemoteIfcCreatedBesideLocal ==
    \E n \in Names, m \in Names :
       /\ n # m
       /\ nsnToRemoteIfc[n] # NoIfc
       /\ nsnToRemoteIfc[n].GuestIP = NilIP
       /\ nsnToRemoteIfc[n] \in remoteIfcs
       /\ nsnToLocalIfc[m] # NoIfc
       /\ nsnToLocalIfc[m] \in localIfcs

\* no attachment of the local cache has AddressVNI v
NoLocalAttIn(v) == \A n \in Names : localCache[n] = NoAtt \/ localCache[n].vni # v

\* the identities with a registered interface of VNI v
IdentitiesOf(v) ==
    {n \in Names : \/ nsnToLocalIfc[n] # NoIfc /\ nsnToLocalIfc[n].VNI = v
                   \/ nsnToRemoteIfc[n] # NoIfc /\ nsnToRemoteIfc[n].VNI = v}

\* C15: once the local attachments of VNI v are gone and the agent is
\* quiescent, the vnState of v is out of the registry, no identity has a
\* registered interface of VNI v, no identity is bound to the vnState of v,
\* and the fabric holds no interface of VNI v.
C15_QuiescentVNTornDown ==
    Quiescent =>
        \A v \in VNIs :
           NoLocalAttIn(v) =>
              /\ vniToVnState[v] = NoVnState
              /\ IdentitiesOf(v) = {}
              /\ \A n \in Names : nsnToVNStateVNI[n] # v
              /\ \A i \in localIfcs \cup remoteIfcs : i.VNI # v

\* worker w is about to call CreateLocalIfc for a local attachment that has
\* no interface yet
AboutToCreateLocalIfc(w) ==
    /\ wk[w].pc = "ifc"
    /\ wk[w].att.node = localNodeName
    /\ nsnToLocalIfc[wk[w].item] = NoIfc
    /\ nsnToRemoteIfc[wk[w].item] = NoIfc

\* a failed CreateLocalIfc changes nothing and requeues the identity
FailedCreateRequeues ==
    \A w \in Workers :
       (AboutToCreateLocalIfc(w) /\ wk'[w] # wk[w] /\ nsnToLocalIfc'[wk[w].item] = NoIfc)
       => /\ wk[w].item \in queue'.delayed
          /\ wk[w].item \in queue'.failed
          /\ UNCHANGED << store, fabricVars, ifcVars, vniToVnState, nsnToVNStateVNI >>

\* a CreateLocalIfc that succeeds for an identity that was requeued has the
\* effect of a first successful create
CreateAfterRequeueSucceeds ==
    \A w \in Workers :
       (AboutToCreateLocalIfc(w) /\ wk[w].item \in queue.failed
           /\ nsnToLocalIfc'[wk[w].item] # NoIfc)
       => LET n == wk[w].item
              att == wk[w].att
              mac == generateMACAddr(att.vni, ParseIP(att.ip))
              ifc == nsnToLocalIfc'[n]
          IN /\ ifc.Name = generateIfcName(mac)
             /\ ifc.VNI = att.vni
             /\ ifc.GuestMAC = mac
             /\ IPEqual(ifc.HostIP, hostIP)
             /\ ifc \in localIfcs'
             /\ nsnToRemoteIfc'[n] = NoIfc
             /\ vniToVnState'[att.vni] # NoVnState
             /\ n \in vniToVnState'[att.vni].localAtts
             /\ nsnToVNStateVNI'[n] = att.vni
             /\ store[n] = att =>
                   \/ /\ store'[n].hostIP = IPString(hostIP)
                      /\ store'[n].ifcName = ifc.Name
                      /\ n \notin queue'.failed
                   \/ /\ store' = store
                      /\ n \in queue'.delayed

\* C16: a failed CreateLocalIfc requeues the identity and leaves every
\* registry as it was, and the create that succeeds on a later pass registers
\* the interface of the attachment, with its vnState in the registry, and
\* writes the host IP and the interface name to the store (or requeues the
\* identity when the store refuses the update).
C16_CreateRetried ==
    /\ [][FailedCreateRequeues]_vars
    /\ [][CreateAfterRequeueSucceeds]_vars

\* a worker is on the pass that retries the create of a requeued identity
C16_RetryAfterFailedCreate ==
    \E w \in Workers :
       /\ AboutToCreateLocalIfc(w)
       /\ wk[w].item \in queue.failed
       /\ store[wk[w].item] = wk[w].att
       /\ vniToVnState[wk[w].att.vni] # NoVnState
       /\ wk[w].item \in vniToVnState[wk[w].att.vni].localAtts

\* ------------------------------------- the agent after start-up

\* the remote interface of attachment b (VNI 1, 14.0.0.5, other node)
RemoteIfcOfB == RemoteNetIfc(1, macOf(1, "14.0.0.5"), ParseIP("14.0.0.5"), otherHostIP)

\* stores of a running agent without local attachment: empty, or attachment
\* b of the other node
RunningStores ==
    { [n \in Names |-> NoAtt],
      [n \in Names |-> IF n = "b"
                       THEN otherAgentStatus(Att(otherNodeName, 1, "14.0.0.5", "", ""))
                       ELSE NoAtt] }

\* the registry of remote interfaces of the running agent: empty when the
\* store is empty; with attachment b in the store, the interface that
\* start-up bound to b and that the tear-down of VN-state 1 left registered
RunningRemoteIfcs(st) ==
    [n \in Names |-> IF st[n] # NoAtt THEN RemoteIfcOfB ELSE NoIfc]

\* a quiescent agent after start-up: the workers are idle, the queue and
\* the local cache are empty, no vnState is registered
InitRunning ==
    /\ store \in RunningStores
    /\ events = MaxEvents
    /\ localIfcs = {}
    /\ nsnToRemoteIfc = RunningRemoteIfcs(store)
    /\ remoteIfcs = {nsnToRemoteIfc[n] : n \in {m \in Names : store[m] # NoAtt}}
    /\ localCache = [n \in Names |-> NoAtt]
    /\ vniToVnState = [v \in VNIs |-> NoVnState]
    /\ nsnToVNStateVNI = [n \in Names |-> NoVNI]
    /\ nsnToLocalIfc = [n \in Names |-> NoIfc]
    /\ nsnToVNIs = [n \in Names |-> {}]
    /\ queue = [queue |-> {}, dirty |-> {}, processing |-> {}, delayed |-> {},
                failed |-> {}, shut |-> FALSE]
    /\ main = [pc |-> "running", todo |-> {}, target |-> NoIfc, i |-> 0, calls |-> 0,
               listed |-> {}, invoked |-> {}]
    /\ wk = [w \in Workers |-> Idle]

\* the running agent while attachment a is created and deleted. Attachment
\* b does not change, so the remote informers deliver nothing after their
\* initial list, and a keeps its VNI, so no attachment changes vnState
NextRunning ==
    \/ EnvCreate("a")
    \/ EnvDelete("a")
    \/ \E n \in Names : onLocalAttAdded(n)
    \/ \E n \in Names : onLocalAttUpdated(n)
    \/ \E n \in Names : onLocalAttRemoved(n)
    \/ \E v \in VNIs : remoteAttsInformerSync(v)
    \/ \E w \in Workers, n \in Names : processQueueItem(w, n)
    \/ \E w \in Workers : processExistingAtt(w)
    \/ \E w \in Workers : processDeletedAtt(w)
    \/ \E w \in Workers : deleteIfcOfDeletedAtt(w)
    \/ \E w \in Workers : clearVNResources(w)
    \/ \E w \in Workers : createOrUpdateIfc(w)
    \/ \E n \in Names : AddAfter(n)

SpecRunning == InitRunning /\ [][NextRunning]_vars

\* the running agent has been left by start-up with the remote interface of
\* b registered and no vnState
StaleRemoteIfcAtQuiescence ==
    /\ Quiescent
    /\ store \in RunningStores
    /\ store["b"] # NoAtt
    /\ localIfcs = {}
    /\ nsnToRemoteIfc = RunningRemoteIfcs(store)
    /\ remoteIfcs = {RemoteIfcOfB}
    /\ localCache = [n \in Names |-> NoAtt]
    /\ vniToVnState = [v \in VNIs |-> NoVnState]
    /\ nsnToVNStateVNI = [n \in Names |-> NoVNI]
    /\ nsnToLocalIfc = [n \in Names |-> NoIfc]
    /\ nsnToVNIs = [n \in Names |-> {}]
    /\ queue.processing = {} /\ queue.failed = {}

\* C17: once attachment a, added to a quiescent agent, is deleted again and
\* the agent is quiescent, the fabric, the interface registry, the vnState
\* registry and nsnToVNStateVNI are what they were before a was added.
C17_AddThenDeleteRestores ==
    (Quiescent /\ store["a"] = NoAtt) =>
        /\ localIfcs = {}
        /\ remoteIfcs = {RunningRemoteIfcs(store)[n] : n \in {m \in Names : store[m] # NoAtt}}
        /\ nsnToLocalIfc = [n \in Names |-> NoIfc]
        /\ nsnToRemoteIfc = RunningRemoteIfcs(store)
        /\ vniToVnState = [v \in VNIs |-> NoVnState]
        /\ nsnToVNStateVNI = [n \in Names |-> NoVNI]

\* worker w is about to call createOrUpdateIfc for a local attachment whose
\* registered local interface is in another VNI than the attachment
VNIChanged(w) ==
    /\ wk[w].pc = "ifc"
    /\ wk[w].att.node = localNodeName
    /\ nsnToLocalIfc[wk[w].item] # NoIfc
    /\ nsnToLocalIfc[wk[w].item].VNI # wk[w].att.vni

VNIChangeReplacesIfc ==
    \A w \in Workers :
       (VNIChanged(w) /\ wk'[w] # wk[w]) =>
          LET n == wk[w].item
              att == wk[w].att
              mac == generateMACAddr(att.vni, ParseIP(att.ip))
              old == nsnToLocalIfc[n]
              new == nsnToLocalIfc'[n]
          IN /\ nsnToVNStateVNI[n] = att.vni
             /\ \A v \in VNIs : (vniToVnState[v] # NoVnState /\ n \in vniToVnState[v].localAtts)
                                    <=> v = att.vni
             /\ UNCHANGED << vniToVnState, nsnToVNStateVNI >>
             /\ nsnToRemoteIfc'[n] = NoIfc
             /\ \/ /\ new = old
                   /\ UNCHANGED fabricVars
                   /\ n \in queue'.delayed
                \/ /\ new = NoIfc
                   /\ old \notin localIfcs'
                   /\ n \in queue'.delayed
                \/ /\ new # NoIfc
                   /\ new.VNI = att.vni
                   /\ new.GuestMAC = mac
                   /\ new.Name = generateIfcName(mac)
                   /\ new \in localIfcs'
                   /\ old \notin localIfcs'

RequestedIfc(w) ==
    LET att == wk[w].att
        attHostIP == attHostIPOf(att)
        attMAC == generateMACAddr(att.vni, ParseIP(att.ip))
    IN IF IPEqual(attHostIP, hostIP)
       THEN newLocalIfc(attMAC, ParseIP(att.ip), attHostIP, att.vni)
       ELSE newRemoteIfc(attMAC, ParseIP(att.ip), attHostIP, att.vni)

\* worker w is in createOrUpdateIfc with an interface to create; no lock is
\* held while the fabric is called
CreatingIfc(w) ==
    /\ wk[w].pc = "ifc"
    /\ newIfcNeedsToBeCreated(nsnToLocalIfc[wk[w].item], nsnToRemoteIfc[wk[w].item],
                              attHostIPOf(wk[w].att),
                              generateMACAddr(wk[w].att.vni, ParseIP(wk[w].att.ip)))

\* C19: no two workers are at the same time in createOrUpdateIfc with
\* interfaces to create that have the same (VNI, GuestIP) pair.
C19_NoConcurrentCreatesOfSamePair ==
    \A w1 \in Workers, w2 \in Workers :
       (w1 # w2 /\ CreatingIfc(w1) /\ CreatingIfc(w2))
       => ~( /\ RequestedIfc(w1).VNI = RequestedIfc(w2).VNI
             /\ RequestedIfc(w1).GuestIP = RequestedIfc(w2).GuestIP )

\* --------------------------------------------- the MAC derivation alone

\* the VNIs generateMACAddr is called with: both ends of the 21-bit range
\* and values on each side of bits 8 and 13
MACVNIs == {0, 1, 255, 256, 4660, 8191, 8192, 65535, 65536, 1193046, 2097151}

\* the IPv4 addresses generateMACAddr is called with, as the four bytes of
\* guestIPv4.To4(); bit 1 of the first byte is set in some and clear in others
MACIPs == { <<0, 0, 0, 0>>, <<1, 2, 3, 4>>, <<2, 0, 0, 0>>, <<10, 0, 0, 5>>,
            <<14, 0, 0, 5>>, <<172, 16, 254, 1>>, <<192, 168, 1, 7>>,
            <<255, 255, 255, 255>> }

\* a caller holds a VNI and a guest IP and has not called generateMACAddr
InitMAC ==
    /\ main \in [pc : {"args"}, vni : MACVNIs, ip : MACIPs, mac : {<<>>}, again : {<<>>}]
    /\ store = [n \in Names |-> NoAtt]
    /\ events = 0
    /\ localIfcs = {}
    /\ remoteIfcs = {}
    /\ localCache = [n \in Names |-> NoAtt]
    /\ vniToVnState = [v \in VNIs |-> NoVnState]
    /\ nsnToVNStateVNI = [n \in Names |-> NoVNI]
    /\ nsnToLocalIfc = [n \in Names |-> NoIfc]
    /\ nsnToRemoteIfc = [n \in Names |-> NoIfc]
    /\ nsnToVNIs = [n \in Names |-> {}]
    /\ queue = [queue |-> {}, dirty |-> {}, processing |-> {}, delayed |-> {},
                failed |-> {}, shut |-> FALSE]
    /\ wk = [w \in Workers |-> Idle]

\* the caller calls generateMACAddr with its arguments
CallGenerateMACAddr ==
    /\ main.pc = "args"
    /\ main' = [main EXCEPT !.pc = "called",
                            !.mac = generateMACAddr(main.vni, main.ip)]
    /\ UNCHANGED << envVars, fabricVars, localCache, vniToVnState, nsnToVNStateVNI,
                    ifcVars, nsnToVNIs, queue, wk >>

\* the caller calls generateMACAddr a second time with the same arguments
CallGenerateMACAddrAgain ==
    /\ main.pc = "called"
    /\ main' = [main EXCEPT !.pc = "calledAgain",
                            !.again = generateMACAddr(main.vni, main.ip)]
    /\ UNCHANGED << envVars, fabricVars, localCache, vniToVnState, nsnToVNStateVNI,
                    ifcVars, nsnToVNIs, queue, wk >>

NextMAC ==
    \/ CallGenerateMACAddr
    \/ CallGenerateMACAddrAgain

SpecMAC == InitMAC /\ [][NextMAC]_vars

\* bit i of the natural number x
Bit(x, i) == (x \div (2 ^ i)) % 2

\* the bitwise and, or of two bytes
ByteAnd(x, y) ==
    LET b(i) == Bit(x, i) * Bit(y, i)
    IN b(0) + 2 * b(1) + 4 * b(2) + 8 * b(3) + 16 * b(4) + 32 * b(5) + 64 * b(6) + 128 * b(7)

ByteOr(x, y) ==
    LET b(i) == IF Bit(x, i) + Bit(y, i) > 0 THEN 1 ELSE 0
    IN b(0) + 2 * b(1) + 4 * b(2) + 8 * b(3) + 16 * b(4) + 32 * b(5) + 64 * b(6) + 128 * b(7)

\* the six bytes of the derived MAC as the formula gives them: 248 is 0xF8
DerivedMAC(vni, ip) ==
    << ByteOr(ByteOr(ByteAnd(Byte(vni \div (2 ^ 13)), 248),
                     Byte(ByteAnd(ip[1], 2) * 2)),
              2),
       ip[2], ip[3], ip[4],
       Byte(vni \div (2 ^ 8)),
       Byte(vni) >>

\* C20: for every VNI below 2^21 and every IPv4 address b0.b1.b2.b3,
\* generateMACAddr returns the bytes (byte(vni>>13) & 0xF8) | ((b0 & 0x02)
\* << 1) | 0x02, b1, b2, b3, byte(vni>>8), byte(vni), and a second call with
\* the same arguments returns the same bytes.
C20_MACIsDerivedFromVNIAndIP ==
    /\ main.pc \in {"called", "calledAgain"} =>
          /\ main.vni < 2 ^ 21
          /\ main.mac = DerivedMAC(main.vni, main.ip)
    /\ main.pc = "calledAgain" => main.again = main.mac

\* generateMACAddr has been called twice with a VNI that has bits above
\* bit 13 and an address whose first byte has bit 1 set
C20_MACOfHighVNI ==
    /\ main.pc = "calledAgain"
    /\ main.vni = 1193046
    /\ main.ip = <<10, 0, 0, 5>>
    /\ main.mac = <<150, 0, 0, 5, 52, 86>>

\* ------------------- the agent after a tear-down that left a tracker entry

\* attachment b of the other node, in VNI 1
RemoteAttB == otherAgentStatus(Att(otherNodeName, 1, "10.0.0.6", "", ""))

\* a quiescent agent after start-up and after the last local attachment of
\* VNI 1 has left: b is in the store, no vnState is registered, and
\* nsnToVNIs still holds VNI 1 for b, which the informer of the cleared
\* vnState had recorded
InitTracked ==
    /\ store = [n \in Names |-> IF n = "b" THEN RemoteAttB ELSE NoAtt]
    /\ events = MaxEvents
    /\ localIfcs = {}
    /\ remoteIfcs = {}
    /\ localCache = [n \in Names |-> NoAtt]
    /\ vniToVnState = [v \in VNIs |-> NoVnState]
    /\ nsnToVNStateVNI = [n \in Names |-> NoVNI]
    /\ nsnToLocalIfc = [n \in Names |-> NoIfc]
    /\ nsnToRemoteIfc = [n \in Names |-> NoIfc]
    /\ nsnToVNIs = [n \in Names |-> IF n = "b" THEN {1} ELSE {}]
    /\ queue = [queue |-> {}, dirty |-> {}, processing |-> {}, delayed |-> {},
                failed |-> {}, shut |-> FALSE]
    /\ main = [pc |-> "running", todo |-> {}, target |-> NoIfc, i |-> 0, calls |-> 0,
               listed |-> {}, invoked |-> {}]
    /\ wk = [w \in Workers |-> Idle]

\* the running agent: the store changes, the informers notify, the workers
\* reconcile
NextTracked ==
    \/ \E n \in Names : EnvCreate(n)
    \/ \E n \in Names : EnvDelete(n)
    \/ \E n \in Names : EnvSetNode(n)
    \/ \E n \in Names : EnvSetVNI(n)
    \/ \E n \in Names : EnvSetIP(n)
    \/ \E n \in Names : OtherAgentSetsStatus(n)
    \/ \E n \in Names : onLocalAttAdded(n)
    \/ \E n \in Names : onLocalAttUpdated(n)
    \/ \E n \in Names : onLocalAttRemoved(n)
    \/ \E v \in VNIs : remoteAttsInformerSync(v)
    \/ \E v \in VNIs, n \in Names : onRemoteAttAdded(v, n)
    \/ \E v \in VNIs, n \in Names : onRemoteAttUpdated(v, n)
    \/ \E v \in VNIs, n \in Names : onRemoteAttRemoved(v, n)
    \/ \E w \in Workers, n \in Names : processQueueItem(w, n)
    \/ \E w \in Workers : processExistingAtt(w)
    \/ \E w \in Workers : updateVNState(w)
    \/ \E w \in Workers : processDeletedAtt(w)
    \/ \E w \in Workers : deleteIfcOfDeletedAtt(w)
    \/ \E w \in Workers : clearVNResources(w)
    \/ \E w \in Workers : createOrUpdateIfc(w)
    \/ \E n \in Names : AddAfter(n)

SpecTracked == InitTracked /\ [][NextTracked]_vars

\* the start-up specification reaches the quiescent state of InitTracked
StaleTrackerAtQuiescence ==
    /\ Quiescent
    /\ store = [n \in Names |-> IF n = "b" THEN RemoteAttB ELSE NoAtt]
    /\ localIfcs = {}
    /\ remoteIfcs = {}
    /\ localCache = [n \in Names |-> NoAtt]
    /\ vniToVnState = [v \in VNIs |-> NoVnState]
    /\ nsnToVNStateVNI = [n \in Names |-> NoVNI]
    /\ nsnToLocalIfc = [n \in Names |-> NoIfc]
    /\ nsnToRemoteIfc = [n \in Names |-> NoIfc]
    /\ nsnToVNIs = [n \in Names |-> IF n = "b" THEN {1} ELSE {}]
    /\ queue.processing = {} /\ queue.failed = {}

\* identity n is tracked in two or more VNIs
SeenInSeveralVNIs(n) == Cardinality(nsnToVNIs[n]) >= 2

SeveralVNIsItemTakesNoAction ==
    \A n \in Names :
       (SeenInSeveralVNIs(n) /\ n \in queue.queue /\ n \notin queue'.queue)
       => /\ UNCHANGED << store, fabricVars, ifcVars, vniToVnState, nsnToVNStateVNI,
                          nsnToVNIs, wk >>
          /\ queue'.delayed = queue.delayed
          /\ n \notin queue'.failed
          /\ n \notin queue'.processing
          /\ n \notin queue'.dirty

ItemEnds(w) == wk[w].pc # "idle" /\ wk'[w].pc = "idle"

\* the pass of worker w that ends in this step left undone a change it had
\* to make: the interface it needed is not registered, the status it had
\* to write is not in the store, or the interface it had to delete is
\* still registered
PassFailed(w) ==
    LET n == wk[w].item
        att == wk[w].att
        attHostIP == attHostIPOf(att)
        attMAC == generateMACAddr(att.vni, ParseIP(att.ip))
        isLocal == IPEqual(attHostIP, hostIP)
        need == newIfcNeedsToBeCreated(nsnToLocalIfc[n], nsnToRemoteIfc[n],
                                       attHostIP, attMAC)
        newIfc == IF isLocal THEN newLocalIfc(attMAC, ParseIP(att.ip), attHostIP, att.vni)
                  ELSE newRemoteIfc(attMAC, ParseIP(att.ip), attHostIP, att.vni)
        created == IF isLocal THEN nsnToLocalIfc'[n] = newIfc
                   ELSE nsnToRemoteIfc'[n] = newIfc
        name == IF need /\ isLocal THEN newIfc.Name ELSE ""
        l == nsnToLocalIfc[n]
        r == nsnToRemoteIfc[n]
    IN
    IF wk[w].pc = "ifc"
    THEN \/ need /\ ~created
         \/ statusNeedsUpdate(att, name) /\ store'[n] = store[n]
    ELSE IF wk[w].pc \in {"deleted", "delIfc"}
    THEN \/ l # NoIfc /\ nsnToLocalIfc'[n] = l
         \/ l = NoIfc /\ r # NoIfc /\ nsnToRemoteIfc'[n] = r
    ELSE FALSE

\* AddRateLimited was called for n and Forget was not
RequeuedWithBackoff(n) == n \in queue'.delayed /\ n \in queue'.failed

\* Forget was called for n and n was not handed to the rate limiter
ForgottenNotRequeued(n) == n \notin queue'.failed /\ queue'.delayed = queue.delayed

DoneOnceRequeueIffError ==
    /\ \A w \in Workers :
          ItemEnds(w) =>
             LET n == wk[w].item IN
             /\ n \in queue.processing
             /\ n \notin queue'.processing
             /\ queue'.processing = queue.processing \ {n}
             /\ IF PassFailed(w) THEN RequeuedWithBackoff(n)
                ELSE ForgottenNotRequeued(n)
    /\ \A n \in Names :
          (n \in queue.queue /\ n \notin queue'.queue /\ UNCHANGED wk) =>
             /\ ForgottenNotRequeued(n)
             /\ n \notin queue'.processing
    /\ \A n \in queue'.processing :
          Cardinality({w \in Workers : wk'[w].item = n}) = 1
    /\ \A w \in Workers : wk'[w].pc # "idle" => wk'[w].item \in queue'.processing

ConflictOnWriteBack(w) ==
    LET n == wk[w].item
        att == wk[w].att
        attHostIP == attHostIPOf(att)
        attMAC == generateMACAddr(att.vni, ParseIP(att.ip))
        need == newIfcNeedsToBeCreated(nsnToLocalIfc[n], nsnToRemoteIfc[n],
                                       attHostIP, attMAC)
        newIfc == newLocalIfc(attMAC, ParseIP(att.ip), attHostIP, att.vni)
        name == IF need THEN newIfc.Name ELSE ""
    IN
    /\ wk[w].pc = "ifc"
    /\ ItemEnds(w)
    /\ att.node = localNodeName
    /\ nsnToLocalIfc'[n] = newIfc
    /\ statusNeedsUpdate(att, name)
    /\ store[n] # NoAtt
    /\ store[n] # att

EndOfRemotePass == main.pc = "syncRemote" /\ main.todo = {}

\* every remote interface the pass has left in the fabric is registered for
\* an identity, and every registered remote interface is in the fabric
RemoteIfcsRegisteredOrDeleted ==
    /\ \A ifc \in remoteIfcs : \E n \in Names : nsnToRemoteIfc[n] = ifc
    /\ \A n \in Names : nsnToRemoteIfc[n] # NoIfc => nsnToRemoteIfc[n] \in remoteIfcs

\* an identity the pass has registered a remote interface for has no local
\* interface registered any more
StaleLocalIfcGone ==
    \A n \in Names : nsnToRemoteIfc[n] # NoIfc => nsnToLocalIfc[n] = NoIfc

\* a remote interface is registered for an identity in the remote pass only
\* in a step in which that identity is the only attachment with the
\* interface's MAC in the remote cache of the interface's VNI, and
\* DeleteRemoteIfc is invoked only on an interface without VN-state or
\* unique match, or on the interface a new match displaces
RemoteIfcBoundToUniqueMatch ==
    main.pc = "syncRemote" =>
       /\ \A n \in Names :
             nsnToRemoteIfc'[n] # nsnToRemoteIfc[n] =>
                LET ifc == nsnToRemoteIfc'[n] IN
                /\ vniToVnState[ifc.VNI] # NoVnState
                /\ ByIndex(vniToVnState[ifc.VNI].cache, MACString(ifc.GuestMAC)) = {n}
       /\ \A ifc \in remoteIfcs \ remoteIfcs' :
             \/ vniToVnState[ifc.VNI] = NoVnState
             \/ Cardinality(ByIndex(vniToVnState[ifc.VNI].cache,
                                    MACString(ifc.GuestMAC))) # 1
             \/ \E n \in Names : nsnToRemoteIfc[n] = ifc /\ nsnToRemoteIfc'[n] # ifc

\* the clauses of C25 on the remote interfaces alone
StartupRemotePassOnRemoteIfcs ==
    /\ [](EndOfRemotePass => RemoteIfcsRegisteredOrDeleted)
    /\ [][RemoteIfcBoundToUniqueMatch]_vars

\* C25: when the start-up pass over the listed remote interfaces is over,
\* every remote interface is either registered for the identity that alone
\* matched its MAC in the remote cache of its VNI or deleted from the
\* fabric (no VN-state, zero or several matches, displaced), and an
\* identity with a remote interface registered has no local interface
\* left in the registry
C25_StartupRemotePass ==
    EndOfRemotePass => (RemoteIfcsRegisteredOrDeleted /\ StaleLocalIfcGone)

\* ------------------------------------------------- C26

\* a worker holds an item
WorkerActive == queue.processing # {} \/ \E w \in Workers : wk[w].pc # "idle"

\* an item is taken off the queue in this step
Dequeues == \E n \in Names : n \in queue.queue /\ n \notin queue'.queue

\* the workers are launched only by a Run whose start-up reconciliation has
\* gone through its last pass, and items leave the queue only once the
\* workers are launched
WorkersAfterStartup ==
    /\ (main.pc # "running" /\ main'.pc = "running") => EndOfRemotePass
    /\ Dequeues => main.pc = "running"

\* Run fails only in the wait for the local cache or in one of the two
\* List calls, it shuts the queue down when it does, and it stays failed
RunFailsForGood ==
    /\ (main.pc # "failed" /\ main'.pc = "failed") =>
          /\ \/ main.pc = "waitSync"
             \/ main.pc = "listLocal"
             \/ main.pc = "syncLocal" /\ main.todo = {}
          /\ queue'.shut
    /\ main.pc = "failed" => (main'.pc = "failed" /\ queue'.shut /\ ~Dequeues)

\* C26: no worker takes an item or reconciles before the local cache's
\* initial list and the start-up reconciliation have returned; when the
\* cache sync or one of the two fabric List calls fails, Run returns the
\* error with the queue shut down, and no worker is ever started
C26_WorkersOnlyAfterStartup ==
    /\ [](WorkerActive => main.pc = "running")
    /\ [](main.pc = "failed" => (queue.shut /\ ~WorkerActive))
    /\ [][WorkersAfterStartup /\ RunFailsForGood]_vars

\* Run has failed after the local cache listed an attachment: the queue
\* is shut down with the identity in it, the store has moved on, and no
\* worker holds anything
C26_RunFailedWithItemsQueued ==
    /\ main.pc = "failed"
    /\ queue.shut
    /\ queue.queue # {}
    /\ \E n \in Names : localCache[n] # NoAtt /\ store[n] # localCache[n]
    /\ ~WorkerActive

\* ------------------------------------------------- C27

\* syncPreExistingIfcs returns in this step: the remote pass has gone
\* through the last listed remote interface, or the list was empty
StartupReturns == ~EndOfRemotePass /\ EndOfRemotePass'

\* every attachment of the local cache has a VN-state for its VNI
LocalAttsHaveVNState ==
    \A n \in Names :
       localCache[n] # NoAtt => vniToVnState[localCache[n].vni] # NoVnState

\* the remote cache of the VN-state of every attachment of the local cache
\* has completed its initial list
LocalAttsHaveSyncedVNState ==
    \A n \in Names :
       localCache[n] # NoAtt =>
          /\ vniToVnState[localCache[n].vni] # NoVnState
          /\ vniToVnState[localCache[n].vni].synced

\* the reading of the claim: when the start-up reconciliation returns
\* every attachment of the local cache has a VN-state whose remote cache
\* has completed its initial list
C27_VNStatesSyncedAtReturn ==
    [][StartupReturns => LocalAttsHaveSyncedVNState']_vars

\* the attachments the remote pass found in the local cache when it listed
\* it: the ones it has entered in a VN-state
ListedLocalAtts == {n \in Names : nsnToVNStateVNI[n] # NoVNI}

\* the remote interfaces the fabric listed: the pass has registered them or
\* invoked their delete
ListedRemoteIfcs ==
    {ifc \in PreRemoteIfcs :
        ifc \in main.invoked \/ \E n \in Names : nsnToRemoteIfc[n] = ifc}

\* every listed local attachment is in the local set of an existing
\* VN-state, and an existing VN-state whose VNI is the VNI of a listed
\* remote interface has a remote cache that has completed its initial list
ListedAttsHaveVNState ==
    /\ \A n \in ListedLocalAtts :
          /\ vniToVnState[nsnToVNStateVNI[n]] # NoVnState
          /\ n \in vniToVnState[nsnToVNStateVNI[n]].localAtts
    /\ \A ifc \in ListedRemoteIfcs :
          vniToVnState[ifc.VNI] # NoVnState => vniToVnState[ifc.VNI].synced

\* the remote pass enters every attachment of the local cache in a
\* VN-state when it lists the cache
LocalAttsListedOnce ==
    (main.pc = "syncLocal" /\ main'.pc = "syncRemote") =>
       /\ \A n \in Names : localCache[n] # NoAtt <=> nsnToVNStateVNI'[n] # NoVNI
       /\ \A n \in Names : localCache[n] # NoAtt => nsnToVNStateVNI'[n] = localCache[n].vni

\* C27: when the start-up reconciliation returns, a VN-state exists for the
\* VNI of every attachment that was in the local cache when the remote pass
\* listed it, and the remote cache of such a VN-state has completed its
\* initial list if the fabric listed a remote interface of that VNI
C27_ListedAttsHaveVNState ==
    [][LocalAttsListedOnce /\ (StartupReturns => ListedAttsHaveVNState')]_vars

\* the start-up reconciliation is over: a listed attachment has its
\* VN-state, synced for the remote interface the fabric listed in its VNI,
\* while an attachment that reached the local cache later has none
C27_ReturnedWithLateLocalAtt ==
    /\ EndOfRemotePass
    /\ \E n \in ListedLocalAtts :
          /\ vniToVnState[nsnToVNStateVNI[n]].synced
          /\ \E ifc \in ListedRemoteIfcs : ifc.VNI = nsnToVNStateVNI[n]
    /\ \E m \in Names : localCache[m] # NoAtt /\ m \notin ListedLocalAtts

\* ------------------------------------------------- C28

\* no VN-state of the registry is without local attachments
NoEmptyVNStateRegistered ==
    \A v \in VNIs : vniToVnState[v] # NoVnState => vniToVnState[v].localAtts # {}

\* identity n leaves the local set of the VN-state of v in this step, and
\* was the only one in it
LastLocalAttLeaves(v, n) ==
    /\ vniToVnState[v] # NoVnState
    /\ vniToVnState[v].localAtts = {n}
    /\ \/ vniToVnState'[v] = NoVnState
       \/ n \notin vniToVnState'[v].localAtts

\* the VN-state whose last local attachment leaves is taken out of the
\* registry in the same step and handed, with its remote set, to the
\* worker that removed the attachment, which clears it next
EmptiedVNStateDetached ==
    \A v \in VNIs, n \in Names :
       LastLocalAttLeaves(v, n) =>
          /\ vniToVnState'[v] = NoVnState
          /\ \E w \in Workers :
                /\ wk[w].item = n
                /\ wk'[w].pc = "clear"
                /\ wk'[w].vni = v
                /\ vniToVnState[v].remoteAtts \subseteq wk'[w].vns.remoteAtts

\* the worker that clears a VN-state removes its VNI from the tracker
\* entry of every identity of its remote set and adds each of them to the
\* queue
DetachedVNStateCleared ==
    \A w \in Workers :
       wk[w].pc = "clear" /\ wk'[w] # wk[w] =>
          /\ wk'[w].pc # "clear"
          /\ \A n \in wk[w].vns.remoteAtts :
                /\ wk[w].vni \notin nsnToVNIs'[n]
                /\ n \in queue'.dirty
                /\ n \in queue'.queue \/ n \in queue'.processing

\* the informer of a VN-state that is out of the registry reports nothing:
\* a VNI enters a tracker entry only while its VN-state is registered
DetachedVNStateSilent ==
    \A v \in VNIs, n \in Names :
       (v \in nsnToVNIs'[n] /\ v \notin nsnToVNIs[n]) => vniToVnState[v] # NoVnState

RemoteAttWithoutVNState(w) ==
    /\ wk[w].pc \in {"exist", "exist2"}
    /\ wk[w].att.node # localNodeName
    /\ vniToVnState[wk[w].att.vni] = NoVnState

\* worker w is in the deletion that a remote attachment without VN-state
\* is turned over to: it still holds the attachment it was given
InDeletionOfExistingAtt(w) ==
    /\ wk[w].pc \in {"deleted", "delIfc", "clear"}
    /\ wk[w].pc = "clear" => wk[w].cont = "deleted"
    /\ wk[w].att # NoAtt

\* the step of a worker with a remote attachment without VN-state touches
\* neither the fabric nor the interface registries nor the store, and
\* leaves the worker in the deletion of the identity (or, first, in
\* the clearing of the VN-state of the VNI the attachment has left), with
\* the VNI out of the identity's tracker entry
NoVnStateTurnsToDeletion ==
    \A w \in Workers :
       (RemoteAttWithoutVNState(w) /\ wk'[w] # wk[w]) =>
          /\ UNCHANGED << store, fabricVars, ifcVars >>
          /\ \/ /\ wk'[w].pc = "deleted"
                /\ wk'[w].att = wk[w].att
                /\ wk[w].att.vni \notin nsnToVNIs'[wk[w].item]
             \/ /\ wk'[w].pc = "clear"
                /\ wk'[w].cont = "exist"
          /\ vniToVnState'[wk[w].att.vni] = NoVnState

\* the deletion creates and registers nothing, and when it ends without a
\* requeue the identity has no interface registered
DeletionOfExistingAttRemovesIfcs ==
    \A w \in Workers :
       (InDeletionOfExistingAtt(w) /\ wk'[w] # wk[w]) =>
          /\ localIfcs' \subseteq localIfcs
          /\ remoteIfcs' \subseteq remoteIfcs
          /\ \A m \in Names :
                /\ nsnToLocalIfc'[m] \in {nsnToLocalIfc[m], NoIfc}
                /\ nsnToRemoteIfc'[m] \in {nsnToRemoteIfc[m], NoIfc}
          /\ (ItemEnds(w) /\ ForgottenNotRequeued(wk[w].item)) =>
                /\ nsnToLocalIfc'[wk[w].item] = NoIfc
                /\ nsnToRemoteIfc'[wk[w].item] = NoIfc

\* the local interface of attachment a that the fabric holds at start-up
LocalIfcOfA ==
    LocalNetIfc(generateIfcName(macOf(1, "10.0.0.5")), 1, macOf(1, "10.0.0.5"),
                ParseIP("10.0.0.5"), hostIP)

\* the agent right after start-up has launched the workers, when a was
\* local while the local pass ran and remote when the remote pass ran, and
\* b is the local attachment of VNI 1: the local pass has registered a's
\* local interface, the remote pass has registered the remote interface
\* with the same MAC for a and has deleted the local interface from the
\* fabric, and both identities are in the queue
StaleLocalIfcAtLaunch ==
    /\ store = [n \in Names |->
                  IF n = "a" THEN otherAgentStatus(Att(otherNodeName, 1, "10.0.0.5", "", ""))
                  ELSE Att(localNodeName, 1, "10.0.0.6", "", "")]
    /\ localIfcs = {}
    /\ remoteIfcs = {RemoteIfcOfB}
    /\ localCache = [n \in Names |-> LocalView(store[n])]
    /\ vniToVnState =
          [v \in VNIs |->
              IF v = 1
              THEN [localAtts |-> {"b"}, remoteAtts |-> {},
                    cache |-> [n \in Names |-> RemoteView(1, store[n])],
                    synced |-> TRUE]
              ELSE NoVnState]
    /\ nsnToVNStateVNI = [n \in Names |-> IF n = "b" THEN 1 ELSE NoVNI]
    /\ nsnToLocalIfc = [n \in Names |-> IF n = "a" THEN LocalIfcOfA ELSE NoIfc]
    /\ nsnToRemoteIfc = [n \in Names |-> IF n = "a" THEN RemoteIfcOfB ELSE NoIfc]
    /\ nsnToVNIs = [n \in Names |-> IF n = "a" THEN {1} ELSE {}]
    /\ queue = [queue |-> {"a", "b"}, dirty |-> {"a", "b"}, processing |-> {},
                delayed |-> {}, failed |-> {}, shut |-> FALSE]
    /\ main = [pc |-> "running", todo |-> {}, target |-> NoIfc, i |-> 0, calls |-> 0,
               listed |-> {}, invoked |-> {}]
    /\ wk = [w \in Workers |-> Idle]

\* the running agent from that state on, with further events of the store
InitStaleLocal == StaleLocalIfcAtLaunch /\ events = MaxEvents

\* the running agent while attachment b is deleted; a does not change, so
\* the remote informer delivers nothing, and no attachment changes VNI
NextStaleLocal ==
    \/ EnvDelete("b")
    \/ \E n \in Names : onLocalAttUpdated(n)
    \/ \E n \in Names : onLocalAttRemoved(n)
    \/ \E w \in Workers, n \in Names : processQueueItem(w, n)
    \/ \E w \in Workers : processExistingAtt(w)
    \/ \E w \in Workers : processDeletedAtt(w)
    \/ \E w \in Workers : deleteIfcOfDeletedAtt(w)
    \/ \E w \in Workers : clearVNResources(w)
    \/ \E w \in Workers : createOrUpdateIfc(w)
    \/ \E n \in Names : AddAfter(n)

SpecStaleLocal == InitStaleLocal /\ [][NextStaleLocal]_vars

\* C29: a worker that holds a remote attachment found in a remote cache,
\* and finds no VN-state for the attachment's VNI when it adds the
\* identity, creates no interface: the pass goes on as the deletion of the
\* identity and, unless a fabric delete fails, ends with no interface
\* registered for the identity
C29_NoVnStateProcessedAsDeleted ==
    [][NoVnStateTurnsToDeletion /\ DeletionOfExistingAttRemovesIfcs]_vars

\* a worker has turned to the deletion of a remote attachment that it
\* found in a remote cache: the VNI has no VN-state any more and the
\* identity still has its remote interface registered
C29_DeletingRemoteAttWithIfc ==
    \E w \in Workers :
       /\ wk[w].pc = "deleted"
       /\ wk[w].att # NoAtt
       /\ wk[w].att.node # localNodeName
       /\ vniToVnState[wk[w].att.vni] = NoVnState
       /\ nsnToRemoteIfc[wk[w].item] # NoIfc

\* ------------------------------------------------- C30

\* the pass of worker w over a deleted identity returns in this step
DeletionEnds(w) == wk[w].pc \in {"deleted", "delIfc"} /\ ItemEnds(w)

\* an interface of the deleted identity leaves the registry only in a step
\* in which the fabric has deleted it, and that pass ends without requeue;
\* when the interface to delete stays registered the fabric delete has
\* failed: fabric and registries are as they were and the identity is
\* handed to the rate limiter
UnregisteredOnlyAfterDelete ==
    \A w \in Workers :
       DeletionEnds(w) =>
          LET n == wk[w].item
              l == nsnToLocalIfc[n]
              r == nsnToRemoteIfc[n]
          IN
          /\ nsnToLocalIfc'[n] # l =>
                /\ nsnToLocalIfc'[n] = NoIfc
                /\ l \notin localIfcs'
                /\ ForgottenNotRequeued(n)
          /\ nsnToRemoteIfc'[n] # r =>
                /\ nsnToRemoteIfc'[n] = NoIfc
                /\ r \notin remoteIfcs'
                /\ ForgottenNotRequeued(n)
          /\ ((l # NoIfc /\ nsnToLocalIfc'[n] = l)
              \/ (l = NoIfc /\ r # NoIfc /\ nsnToRemoteIfc'[n] = r)) =>
                /\ UNCHANGED << fabricVars, ifcVars >>
                /\ RequeuedWithBackoff(n)

\* C30: in the reconciliation of a deleted identity the interface leaves
\* the registry only after the fabric has deleted it; when the fabric
\* delete fails the registry entry stays as it is, the error is returned
\* and the identity is requeued with back-off
C30_UnregisteredOnlyAfterDelete == [][UnregisteredOnlyAfterDelete]_vars

\* the attachment of an identity is gone from the store and from the local
\* cache, the fabric delete of its local interface has failed: the
\* interface is still registered and in the fabric, and the identity waits
\* in the rate limiter
C30_FailedDeleteKeepsEntry ==
    \E n \in Names :
       /\ store[n] = NoAtt /\ localCache[n] = NoAtt
       /\ nsnToLocalIfc[n] # NoIfc
       /\ nsnToLocalIfc[n] \in localIfcs
       /\ n \in queue.delayed /\ n \in queue.failed
       /\ nsnToVNStateVNI[n] = NoVNI
       /\ \A w \in Workers : wk[w].pc = "idle"

\* ------------------------------------------------- the subnet validator

SubnetNames == {"s1", "s2"}

\* absent subnet (NotFound)
NoSubnet == [absent |-> TRUE]

SubnetVNIs == {1, 2}

\* the CIDRs of the subnets: cidr1 and cidr2 of the validator's tests, and
\* the upper half of cidr1
SubnetCIDRs ==
    { [ip |-> <<192, 168, 10, 0>>, bits |-> 24],
      [ip |-> <<192, 168, 11, 0>>, bits |-> 24],
      [ip |-> <<192, 168, 10, 128>>, bits |-> 25] }

\* first and last address of a CIDR of 16 bits or more, as offsets in
\* its /16
CIDRLow(c) == c.ip[3] * 256 + c.ip[4]

CIDRHigh(c) == CIDRLow(c) + 2 ^ (32 - c.bits) - 1

\* two CIDRs have an address in common
CIDROverlap(c, d) ==
    /\ c.ip[1] = d.ip[1] /\ c.ip[2] = d.ip[2]
    /\ CIDRLow(c) <= CIDRHigh(d)
    /\ CIDRLow(d) <= CIDRHigh(c)

\* a Subnet: spec.vni, spec.ipv4, status.validated and whether
\* status.errors holds complaints
Subnet(vni, cidr) == [vni |-> vni, cidr |-> cidr, validated |-> FALSE, errors |-> FALSE]

\* the subnets of the API server other than n with the VNI of n
RivalsIn(api, n) ==
    {m \in SubnetNames \ {n} : api[m] # NoSubnet /\ api[m].vni = api[n].vni}

\* the API server holds any subnets, none validated; the informer of the
\* validator holds some of them, and none has been processed
InitValidator ==
    /\ main \in [pc : {"validator"},
                 api : [SubnetNames -> {NoSubnet} \cup
                           {Subnet(v, c) : v \in SubnetVNIs, c \in SubnetCIDRs}],
                 informer : SUBSET SubnetNames,
                 processed : {{}},
                 deletes : {MaxEvents}]
    /\ \A n \in main.informer : main.api[n] # NoSubnet
    /\ store = [n \in Names |-> NoAtt]
    /\ events = 0
    /\ localIfcs = {}
    /\ remoteIfcs = {}
    /\ localCache = [n \in Names |-> NoAtt]
    /\ vniToVnState = [v \in VNIs |-> NoVnState]
    /\ nsnToVNStateVNI = [n \in Names |-> NoVNI]
    /\ nsnToLocalIfc = [n \in Names |-> NoIfc]
    /\ nsnToRemoteIfc = [n \in Names |-> NoIfc]
    /\ nsnToVNIs = [n \in Names |-> {}]
    /\ queue = [queue |-> {}, dirty |-> {}, processing |-> {}, delayed |-> {},
                failed |-> {}, shut |-> FALSE]
    /\ wk = [w \in Workers |-> Idle]

\* the informer of the validator receives a subnet of the API server
SubnetInformerAdds(n) ==
    /\ main.pc = "validator"
    /\ main.api[n] # NoSubnet
    /\ n \notin main.informer
    /\ main' = [main EXCEPT !.informer = @ \cup {n}]
    /\ UNCHANGED << envVars, fabricVars, localCache, vniToVnState, nsnToVNStateVNI,
                    ifcVars, nsnToVNIs, queue, wk >>

\* a subnet is deleted from the API server
DeleteSubnet(n) ==
    /\ main.pc = "validator"
    /\ main.deletes > 0
    /\ main.api[n] # NoSubnet
    /\ main' = [main EXCEPT !.api[n] = NoSubnet, !.deletes = @ - 1]
    /\ UNCHANGED << envVars, fabricVars, localCache, vniToVnState, nsnToVNStateVNI,
                    ifcVars, nsnToVNIs, queue, wk >>

\* the informer of the validator receives the deletion of a subnet; the
\* validator drops what it holds for the subnet
SubnetInformerRemoves(n) ==
    /\ main.pc = "validator"
    /\ main.api[n] = NoSubnet
    /\ n \in main.informer
    /\ main' = [main EXCEPT !.informer = @ \ {n}, !.processed = @ \ {n}]
    /\ UNCHANGED << envVars, fabricVars, localCache, vniToVnState, nsnToVNStateVNI,
                    ifcVars, nsnToVNIs, queue, wk >>

\* a processSubnet that looks for rivals in the informer only
processSubnetListsInformer(n) ==
    LET rivals == RivalsIn(main.api, n) \cap main.informer
        conflicting == {m \in rivals : CIDROverlap(main.api[m].cidr, main.api[n].cidr)}
    IN
    /\ main.pc = "validator"
    /\ n \in main.informer
    /\ main.api[n] # NoSubnet
    /\ \/ /\ main.api[n].validated
          /\ main' = [main EXCEPT !.processed = @ \cup {n}]
       \/ /\ ~main.api[n].validated
          /\ conflicting # {}
          /\ main' = [main EXCEPT !.api[n].errors = TRUE, !.processed = @ \cup {n}]
       \/ /\ ~main.api[n].validated
          /\ conflicting = {}
          /\ rivals \subseteq main.processed
          /\ main' = [main EXCEPT !.api[n].validated = TRUE, !.api[n].errors = FALSE,
                                  !.processed = @ \cup {n}]
       \/ /\ main' = [main EXCEPT !.processed = @ \cup {n}]
    /\ UNCHANGED << envVars, fabricVars, localCache, vniToVnState, nsnToVNStateVNI,
                    ifcVars, nsnToVNIs, queue, wk >>

\* processSubnet of a subnet of the informer. The rivals are the subnets
\* of the API server with the subnet's VNI; a validated subnet stays
\* validated; a subnet with a rival whose CIDR overlaps gets its errors
\* set; a subnet without such a rival is validated once every rival has
\* been processed, and the processing returns an error until then. The
\* last disjunct is a processing whose status update fails
processSubnet(n) ==
    LET rivals == RivalsIn(main.api, n)
        conflicting == {m \in rivals : CIDROverlap(main.api[m].cidr, main.api[n].cidr)}
    IN
    /\ main.pc = "validator"
    /\ n \in main.informer
    /\ main.api[n] # NoSubnet
    /\ \/ /\ main.api[n].validated
          /\ main' = [main EXCEPT !.processed = @ \cup {n}]
       \/ /\ ~main.api[n].validated
          /\ conflicting # {}
          /\ main' = [main EXCEPT !.api[n].errors = TRUE, !.processed = @ \cup {n}]
       \/ /\ ~main.api[n].validated
          /\ conflicting = {}
          /\ rivals \subseteq main.processed
          /\ main' = [main EXCEPT !.api[n].validated = TRUE, !.api[n].errors = FALSE,
                                  !.processed = @ \cup {n}]
       \/ /\ main' = [main EXCEPT !.processed = @ \cup {n}]
    /\ UNCHANGED << envVars, fabricVars, localCache, vniToVnState, nsnToVNStateVNI,
                    ifcVars, nsnToVNIs, queue, wk >>

NextValidator ==
    \/ \E n \in SubnetNames : SubnetInformerAdds(n)
    \/ \E n \in SubnetNames : DeleteSubnet(n)
    \/ \E n \in SubnetNames : SubnetInformerRemoves(n)
    \/ \E n \in SubnetNames : processSubnet(n)

SpecValidator == InitValidator /\ [][NextValidator]_vars

\* ------------------------------------------------- C21

\* subnet n of the API server has a rival there: another subnet with the
\* same VNI and an overlapping CIDR
HasRivalInAPI(n) ==
    \E m \in RivalsIn(main.api, n) : CIDROverlap(main.api[m].cidr, main.api[n].cidr)

WorkersOn(n) == {w \in Workers : wk[w].pc # "idle" /\ wk[w].item = n}

\* no identity is held by two workers, an identity that a worker holds is
\* not in the queue for another worker to take, and an identity added
\* meanwhile is marked dirty
OneWorkerPerIdentity ==
    \A n \in Names :
       /\ Cardinality(WorkersOn(n)) <= 1
       /\ WorkersOn(n) # {} <=> n \in queue.processing
       /\ n \in queue.processing => n \notin queue.queue
       /\ n \in queue.dirty => (n \in queue.queue \/ n \in queue.processing)

\* an event of the local cache on an identity marks it dirty, also while a
\* worker holds it, and the worker's return puts a dirty identity back
\* in the queue
AddWhileProcessingIsKept ==
    /\ \A n \in Names : localCache'[n] # localCache[n] => n \in queue'.dirty
    /\ \A w \in Workers :
          (ItemEnds(w) /\ wk[w].item \in queue.dirty) =>
             /\ wk[w].item \in queue'.queue
             /\ wk[w].item \in queue'.dirty
             /\ wk[w].item \notin queue'.processing

\* C31: at most one worker reconciles an identity at any time; an identity
\* added to the queue while a worker processes it is not handed to another
\* worker before the first one has called Done, and is then in the queue
\* again
C31_OneWorkerPerIdentity ==
    /\ []OneWorkerPerIdentity
    /\ [][AddWhileProcessingIsKept]_vars

\* an identity has been added while a worker holds it: it is dirty and not
\* in the queue, and another worker is idle
C31_AddedWhileProcessed ==
    \E n \in Names :
       /\ n \in queue.processing
       /\ n \in queue.dirty
       /\ n \notin queue.queue
       /\ \E w \in Workers : wk[w].pc = "idle"

\* ------------------------------------------------- C32

\* worker w takes a step
WorkerSteps(w) == wk'[w] # wk[w]

\* a vnState enters the registry for v with a fresh remote attachments
\* informer and the one local attachment of the worker that made it
VNStateCreatedOnce ==
    \A v \in VNIs :
       (vniToVnState[v] = NoVnState /\ vniToVnState'[v] # NoVnState) =>
          /\ Cardinality({w \in Workers : WorkerSteps(w)}) = 1
          /\ \E w \in Workers :
                /\ WorkerSteps(w)
                /\ vniToVnState'[v].localAtts = {wk[w].item}
          /\ vniToVnState'[v].remoteAtts = {}
          /\ ~vniToVnState'[v].synced

\* a worker that finds the vnState of v registered joins it: the remote
\* attachments informer stays the one that was started, and no local
\* attachment of another worker is lost
VNStateJoined ==
    \A v \in VNIs, w \in Workers :
       (WorkerSteps(w) /\ vniToVnState[v] # NoVnState /\ vniToVnState'[v] # NoVnState) =>
          /\ vniToVnState'[v].cache = vniToVnState[v].cache
          /\ vniToVnState'[v].synced = vniToVnState[v].synced
          /\ vniToVnState[v].localAtts \ {wk[w].item} \subseteq vniToVnState'[v].localAtts

\* the workers that are handed a vnState in this step
HandedVNState(v) ==
    {w \in Workers : wk[w].pc # "clear" /\ wk'[w].pc = "clear" /\ wk'[w].vni = v}

\* a vnState that leaves the registry is handed to exactly one worker, a
\* worker is handed a vnState only when it leaves the registry, and the
\* worker closes its stop channel in one step, after which it no longer
\* holds the vnState
VNStateHandedToOneCaller ==
    /\ \A v \in VNIs :
          IF vniToVnState[v] # NoVnState /\ vniToVnState'[v] = NoVnState
          THEN /\ Cardinality(HandedVNState(v)) = 1
               /\ \A w \in HandedVNState(v) :
                     /\ wk'[w].vns.cache = vniToVnState[v].cache
                     /\ wk'[w].vns.localAtts = {}
          ELSE HandedVNState(v) = {}
    /\ \A w \in Workers :
          (wk[w].pc = "clear" /\ WorkerSteps(w)) =>
             /\ wk'[w].pc # "clear"
             /\ wk'[w].vns = NoVnState

\* C32: under every interleaving of the workers, the first local
\* attachments of a VNI make exactly one VN-state with one remote watcher,
\* which the other workers join, and a VN-state is handed to exactly one
\* caller for teardown, which closes its stop signal once
C32_OneVNStateOneTeardown ==
    [][VNStateCreatedOnce /\ VNStateJoined /\ VNStateHandedToOneCaller]_vars

\* two workers have each added a local attachment to the same VNI and both
\* are in the one VN-state of that VNI
C32_TwoWorkersOneVNState ==
    \E v \in VNIs :
       /\ vniToVnState[v] # NoVnState
       /\ vniToVnState[v].localAtts = Names
       /\ \A w \in Workers : wk[w].pc = "ifc" /\ wk[w].att.vni = v

\* ------------------------------------------------- C33
\* The mutexes of the agent: every goroutine is a stack of operations, a
\* function call being replaced by one of the sequences of lock, unlock
\* and call operations its code can run.

VNStateMutex == "vniToVnStateMutex"
AuxiliaryMutexes == {"nsnToVNStateVNIMutex", "nsnToLocalIfcMutex",
                     "nsnToRemoteIfcMutex", "nsnToVNIsMutex"}

\* the goroutines: Run, the informers' handler goroutine and the workers
LockWorkers == {"worker1", "worker2"}
LockThreads == {"Run", "informer"} \cup LockWorkers

Op(k, x) == [k |-> k, x |-> x]
Do(f) == Op("do", f)
Cat(A, B) == {a \o b : a \in A, b \in B}

getLocalIfcOps == << Op("RLock", "nsnToLocalIfcMutex"), Op("RUnlock", "nsnToLocalIfcMutex") >>
assignLocalIfcOps == << Op("Lock", "nsnToLocalIfcMutex"), Op("Unlock", "nsnToLocalIfcMutex") >>
unsetLocalIfcOps == << Op("Lock", "nsnToLocalIfcMutex"), Op("Unlock", "nsnToLocalIfcMutex") >>
getRemoteIfcOps == << Op("RLock", "nsnToRemoteIfcMutex"), Op("RUnlock", "nsnToRemoteIfcMutex") >>
assignRemoteIfcOps == << Op("Lock", "nsnToRemoteIfcMutex"), Op("Unlock", "nsnToRemoteIfcMutex") >>
unsetRemoteIfcOps == << Op("Lock", "nsnToRemoteIfcMutex"), Op("Unlock", "nsnToRemoteIfcMutex") >>

\* a getVNStateVNI that returns with the read lock held
getVNStateVNIOpsNoRUnlock == << Op("RLock", "nsnToVNStateVNIMutex") >>

getVNStateVNIOps == << Op("RLock", "nsnToVNStateVNIMutex"), Op("RUnlock", "nsnToVNStateVNIMutex") >>
unsetVNStateVNIOps == << Op("Lock", "nsnToVNStateVNIMutex"), Op("Unlock", "nsnToVNStateVNIMutex") >>
setVNStateVNIOps == << Op("Lock", "nsnToVNStateVNIMutex"), Op("Unlock", "nsnToVNStateVNIMutex") >>
addVNIOps == << Op("Lock", "nsnToVNIsMutex"), Op("Unlock", "nsnToVNIsMutex") >>
removeSeenInVNIOps == << Op("Lock", "nsnToVNIsMutex"), Op("Unlock", "nsnToVNIsMutex") >>
getAttSeenInVNIOps == << Op("RLock", "nsnToVNIsMutex"), Op("RUnlock", "nsnToVNIsMutex") >>
getRemoteAttListerForVNIOps == << Op("RLock", VNStateMutex), Op("RUnlock", VNStateMutex) >>
removeAttFromVNStateOps == << Op("Lock", VNStateMutex), Op("Unlock", VNStateMutex) >>

\* updateVNStateForExistingAtt: the deferred function unlocks the mutex of
\* the vnStates and then sets or unsets the entry of nsnToVNStateVNI
updateVNStateForExistingAttOps ==
    { << Op("Lock", VNStateMutex), Op("Unlock", VNStateMutex) >> \o setVNStateVNIOps,
      << Op("Lock", VNStateMutex), Op("Unlock", VNStateMutex) >> \o unsetVNStateVNIOps }

\* the deletions of processDeletedAtt, after the departure from the vnState
deleteIfcOps ==
    { getLocalIfcOps \o << Op("call", "DeleteLocalIfc") >>,
      getLocalIfcOps \o << Op("call", "DeleteLocalIfc") >> \o unsetLocalIfcOps,
      getLocalIfcOps \o getRemoteIfcOps,
      getLocalIfcOps \o getRemoteIfcOps \o << Op("call", "DeleteRemoteIfc") >>,
      getLocalIfcOps \o getRemoteIfcOps \o << Op("call", "DeleteRemoteIfc") >>
         \o unsetRemoteIfcOps }

\* createOrUpdateIfc after the two lookups: nothing, or the deletion of the
\* old interface and the creation of the new one, each of which may fail
replaceIfcOps ==
    LET dels == { << >>,
                  << Op("call", "DeleteLocalIfc") >> \o unsetLocalIfcOps,
                  << Op("call", "DeleteRemoteIfc") >> \o unsetRemoteIfcOps }
        news == { << Op("call", "CreateLocalIfc") >>,
                  << Op("call", "CreateLocalIfc") >> \o assignLocalIfcOps,
                  << Op("call", "CreateRemoteIfc") >>,
                  << Op("call", "CreateRemoteIfc") >> \o assignRemoteIfcOps }
    IN { << >>, << Op("call", "DeleteLocalIfc") >>, << Op("call", "DeleteRemoteIfc") >> }
          \cup Cat(dels, news)

\* the sequences function f can run; a loop is a function that calls
\* itself last
Code(f) ==
    CASE f = "Run" ->
            { << Op("call", "WaitForCacheSync") >>,
              << Op("call", "WaitForCacheSync"), Do("syncPreExistingLocalIfcs") >>,
              << Op("call", "WaitForCacheSync"), Do("syncPreExistingLocalIfcs"),
                 Do("syncPreExistingRemoteIfcs") >>,
              << Op("call", "WaitForCacheSync"), Do("syncPreExistingLocalIfcs"),
                 Do("syncPreExistingRemoteIfcs"), Op("go", "processQueue") >> }
      [] f = "syncPreExistingLocalIfcs" ->
            { << Op("call", "ListLocalIfcs") >>,
              << Op("call", "ListLocalIfcs"), Do("aPreExistingLocalIfc") >> }
      [] f = "aPreExistingLocalIfc" ->
            { << >>,
              getLocalIfcOps \o assignLocalIfcOps \o << Do("aPreExistingLocalIfc") >>,
              getLocalIfcOps \o assignLocalIfcOps \o << Op("call", "DeleteLocalIfc"),
                                                         Do("aPreExistingLocalIfc") >>,
              << Op("call", "DeleteLocalIfc"), Do("aPreExistingLocalIfc") >> }
      [] f = "syncPreExistingRemoteIfcs" ->
            { << Do("aLocalAtt"), Op("call", "ListRemoteIfcs") >>,
              << Do("aLocalAtt"), Op("call", "ListRemoteIfcs"),
                 Do("aPreExistingRemoteIfc") >> }
      [] f = "aLocalAtt" ->
            { << >> } \cup Cat(updateVNStateForExistingAttOps, { << Do("aLocalAtt") >> })
      [] f = "aPreExistingRemoteIfc" ->
            Cat({ << >>, << Op("call", "WaitForCacheSync") >> },
                { << >>,
                  << Op("call", "DeleteRemoteIfc"), Do("aPreExistingRemoteIfc") >>,
                  getRemoteIfcOps \o assignRemoteIfcOps
                     \o << Op("call", "DeleteRemoteIfc"), Do("aPreExistingRemoteIfc") >>,
                  getRemoteIfcOps \o assignRemoteIfcOps \o getLocalIfcOps
                     \o << Do("aPreExistingRemoteIfc") >>,
                  getRemoteIfcOps \o assignRemoteIfcOps \o getLocalIfcOps
                     \o << Op("call", "DeleteLocalIfc"), Do("aPreExistingRemoteIfc") >> })
      [] f = "processQueue" ->
            { << Op("call", "queue.Get"), Do("processNetworkAttachment"),
                 Op("call", "queue.Done") >> }
      [] f = "processNetworkAttachment" ->
            { << Do("getAttachment") >>,
              << Do("getAttachment"), Do("processExistingAtt") >>,
              << Do("getAttachment"), Do("processDeletedAtt") >> }
      [] f = "getAttachment" ->
            { getAttSeenInVNIOps, getAttSeenInVNIOps \o getRemoteAttListerForVNIOps }
      [] f = "processExistingAtt" ->
            { << Do("updateVNState"), Do("clearVNResources") >>,
              << Do("updateVNState") >> \o removeSeenInVNIOps \o << Do("processDeletedAtt") >>,
              << Do("updateVNState"), Do("createOrUpdateIfc") >>,
              << Do("updateVNState"), Do("createOrUpdateIfc"), Op("call", "Update") >> }
      [] f = "updateVNState" ->
            Cat({ getVNStateVNIOps,
                  getVNStateVNIOps \o << Do("updateVNStateAfterAttDeparture") >>
                     \o unsetVNStateVNIOps },
                updateVNStateForExistingAttOps)
      [] f = "updateVNStateAfterAttDeparture" ->
            { removeAttFromVNStateOps,
              removeAttFromVNStateOps \o << Do("clearVNResources") >> }
      [] f = "clearVNResources" ->
            { << >>,
              removeSeenInVNIOps \o << Op("call", "queue.Add"), Do("clearVNResources") >> }
      [] f = "processDeletedAtt" ->
            Cat({ getVNStateVNIOps,
                  getVNStateVNIOps \o << Do("updateVNStateAfterAttDeparture") >>
                     \o unsetVNStateVNIOps },
                deleteIfcOps)
      [] f = "createOrUpdateIfc" ->
            Cat({ getLocalIfcOps \o getRemoteIfcOps }, replaceIfcOps)
      [] f = "onLocalAttAdded" -> { << Op("call", "queue.Add") >> }
      [] f = "onRemoteAttAdded" -> { addVNIOps \o << Op("call", "queue.Add") >> }
      [] f = "onRemoteAttUpdated" -> { << Op("call", "queue.Add") >> }
      [] f = "onRemoteAttRemoved" -> { removeSeenInVNIOps \o << Op("call", "queue.Add") >> }

\* the handlers the informers' goroutine runs
Handlers == {"onLocalAttAdded", "onRemoteAttAdded", "onRemoteAttUpdated",
             "onRemoteAttRemoved"}

\* the calls that block: the fabric, the store and the queue's Get
BlockingCalls == {"DeleteLocalIfc", "DeleteRemoteIfc", "CreateLocalIfc",
                  "CreateRemoteIfc", "ListLocalIfcs", "ListRemoteIfcs", "Update",
                  "queue.Get"}

InitLocks ==
    /\ main = [pc |-> "locks",
               prog |-> [t \in LockThreads |-> IF t = "Run" THEN << Do("Run") >> ELSE << >>],
               held |-> [t \in LockThreads |-> {}],
               launched |-> FALSE]
    /\ store = [n \in Names |-> NoAtt]
    /\ events = 0
    /\ localIfcs = {}
    /\ remoteIfcs = {}
    /\ localCache = [n \in Names |-> NoAtt]
    /\ vniToVnState = [v \in VNIs |-> NoVnState]
    /\ nsnToVNStateVNI = [n \in Names |-> NoVNI]
    /\ nsnToLocalIfc = [n \in Names |-> NoIfc]
    /\ nsnToRemoteIfc = [n \in Names |-> NoIfc]
    /\ nsnToVNIs = [n \in Names |-> {}]
    /\ queue = [queue |-> {}, dirty |-> {}, processing |-> {}, delayed |-> {},
                failed |-> {}, shut |-> FALSE]
    /\ wk = [w \in Workers |-> Idle]

LocksUnchanged ==
    UNCHANGED << envVars, fabricVars, localCache, vniToVnState, nsnToVNStateVNI,
                 ifcVars, nsnToVNIs, queue, wk >>

\* the operation goroutine t runs next
NextOp(t) == IF main.prog[t] = << >> THEN Op("none", "") ELSE Head(main.prog[t])

\* sync.RWMutex: Lock waits for every holder, RLock for the writer
CanAcquire(t, o) ==
    IF o.k = "Lock"
    THEN \A u \in LockThreads : << o.x, "W" >> \notin main.held[u] /\ << o.x, "R" >> \notin main.held[u]
    ELSE \A u \in LockThreads : << o.x, "W" >> \notin main.held[u]

\* a worker takes the next round of processQueue, the informers' goroutine
\* the next notification
ThreadStarts(t) ==
    /\ main.prog[t] = << >>
    /\ \/ /\ t \in LockWorkers
          /\ main.launched
          /\ main' = [main EXCEPT !.prog[t] = << Do("processQueue") >>]
       \/ /\ t = "informer"
          /\ \E h \in Handlers : main' = [main EXCEPT !.prog[t] = << Do(h) >>]
    /\ LocksUnchanged

\* goroutine t enters a function and takes one of its paths
ThreadBranches(t) ==
    /\ NextOp(t).k = "do"
    /\ \E path \in Code(NextOp(t).x) :
          main' = [main EXCEPT !.prog[t] = path \o Tail(main.prog[t])]
    /\ LocksUnchanged

ThreadLocks(t) ==
    /\ NextOp(t).k \in {"Lock", "RLock"}
    /\ CanAcquire(t, NextOp(t))
    /\ main' = [main EXCEPT !.prog[t] = Tail(@),
                            !.held[t] = @ \cup {<< NextOp(t).x,
                                                  IF NextOp(t).k = "Lock" THEN "W" ELSE "R" >>}]
    /\ LocksUnchanged

ThreadUnlocks(t) ==
    /\ NextOp(t).k \in {"Unlock", "RUnlock"}
    /\ main' = [main EXCEPT !.prog[t] = Tail(@),
                            !.held[t] = @ \ {<< NextOp(t).x,
                                                IF NextOp(t).k = "Unlock" THEN "W" ELSE "R" >>}]
    /\ LocksUnchanged

\* a call to the fabric, the store, the queue or a cache returns
ThreadCalls(t) ==
    /\ NextOp(t).k = "call"
    /\ main' = [main EXCEPT !.prog[t] = Tail(@)]
    /\ LocksUnchanged

\* Run launches the workers
ThreadLaunches(t) ==
    /\ NextOp(t).k = "go"
    /\ main' = [main EXCEPT !.prog[t] = Tail(@), !.launched = TRUE]
    /\ LocksUnchanged

NextLocks ==
    \E t \in LockThreads :
       \/ ThreadStarts(t)
       \/ ThreadBranches(t)
       \/ ThreadLocks(t)
       \/ ThreadUnlocks(t)
       \/ ThreadCalls(t)
       \/ ThreadLaunches(t)

SpecLocks == InitLocks /\ [][NextLocks]_vars

\* goroutine t waits for a mutex
WaitsForMutex(t) ==
    NextOp(t).k \in {"Lock", "RLock"} /\ ~CanAcquire(t, NextOp(t))

\* the goroutines that keep t from its mutex
HoldersAgainst(t) ==
    {u \in LockThreads : \E mode \in {"R", "W"} :
        /\ << NextOp(t).x, mode >> \in main.held[u]
        /\ (NextOp(t).k = "Lock" \/ mode = "W")}

NoVNStateMutexUnderAuxiliary ==
    \A t \in LockThreads :
       (NextOp(t).k \in {"Lock", "RLock"} /\ NextOp(t).x = VNStateMutex) =>
          \A m \in AuxiliaryMutexes, mode \in {"R", "W"} : << m, mode >> \notin main.held[t]

NoMutexAcrossBlockingCall ==
    \A t \in LockThreads :
       (NextOp(t).k = "call" /\ NextOp(t).x \in BlockingCalls) => main.held[t] = {}

NoDeadlockOnMutexes ==
    ~ \E S \in SUBSET LockThreads :
         /\ S # {}
         /\ \A t \in S : WaitsForMutex(t) /\ HoldersAgainst(t) \subseteq S

\* C33: no goroutine acquires the VN-state mutex while it holds an
\* auxiliary mutex, no goroutine holds a mutex while it calls the fabric,
\* the store or the queue's Get, and no set of goroutines wait for mutexes
\* that only goroutines of the set hold
C33_LockOrderNoDeadlock ==
    /\ main.pc = "locks"
    /\ NoVNStateMutexUnderAuxiliary
    /\ NoMutexAcrossBlockingCall
    /\ NoDeadlockOnMutexes

\* a worker waits for the VN-state mutex that another worker holds, while
\* the informers' goroutine holds the mutex of the ambiguity map
C33_WorkerWaitsForVNStateMutex ==
    \E t \in LockWorkers, u \in LockWorkers :
       /\ << VNStateMutex, "W" >> \in main.held[u]
       /\ WaitsForMutex(t)
       /\ NextOp(t).x = VNStateMutex
       /\ << "nsnToVNIsMutex", "W" >> \in main.held["informer"]

\* ------------------------------------------------- C34

\* identity n is a member of the registered VN-state of v
MemberOfVNState(n, v) ==
    /\ vniToVnState[v] # NoVnState
    /\ n \in vniToVnState[v].localAtts \cup vniToVnState[v].remoteAtts

AtRest(n) ==
    /\ n \notin queue.processing
    /\ n \notin queue.dirty
    /\ n \notin queue.delayed
    /\ \A w \in Workers : wk[w].pc # "clear"

MaxWatchers == 3
Watchers == 1..MaxWatchers

\* a select that waits for the first channel only
aggregateTwoStopChannelsFirstOnly(ch1, ch2) == ch1 = "closed"

\* aggregateTwoStopChannels, the select of its goroutine: a receive from a
\* channel nobody sends on is ready once the channel is closed
aggregateTwoStopChannels(ch1, ch2) == ch1 = "closed" \/ ch2 = "closed"

InitStop ==
    /\ main = [pc |-> "stop", stopCh |-> "open",
               remoteAttsInformerStopCh |-> [i \in Watchers |-> "none"],
               aggregateStopCh |-> [i \in Watchers |-> "none"]]
    /\ store = [n \in Names |-> NoAtt]
    /\ events = 0
    /\ localIfcs = {}
    /\ remoteIfcs = {}
    /\ localCache = [n \in Names |-> NoAtt]
    /\ vniToVnState = [v \in VNIs |-> NoVnState]
    /\ nsnToVNStateVNI = [n \in Names |-> NoVNI]
    /\ nsnToLocalIfc = [n \in Names |-> NoIfc]
    /\ nsnToRemoteIfc = [n \in Names |-> NoIfc]
    /\ nsnToVNIs = [n \in Names |-> {}]
    /\ queue = [queue |-> {}, dirty |-> {}, processing |-> {}, delayed |-> {},
                failed |-> {}, shut |-> FALSE]
    /\ wk = [w \in Workers |-> Idle]

\* initVNState makes the informer's stop channel and starts the informer
\* with the aggregate of ca.stopCh and that channel
StartRemoteAttsInformer(i) ==
    /\ main.remoteAttsInformerStopCh[i] = "none"
    /\ main' = [main EXCEPT !.remoteAttsInformerStopCh[i] = "open",
                            !.aggregateStopCh[i] = "open"]
    /\ LocksUnchanged

\* clearVNResources closes the stop channel of the vnState it was handed
CloseRemoteAttsInformerStopCh(i) ==
    /\ main.remoteAttsInformerStopCh[i] = "open"
    /\ main' = [main EXCEPT !.remoteAttsInformerStopCh[i] = "closed"]
    /\ LocksUnchanged

\* the caller of Run closes the stop channel of the process
CloseStopCh ==
    /\ main.stopCh = "open"
    /\ main' = [main EXCEPT !.stopCh = "closed"]
    /\ LocksUnchanged

\* the goroutine of aggregateTwoStopChannels leaves its select and closes
\* the aggregate channel
AggregateGoroutine(i) ==
    /\ main.aggregateStopCh[i] = "open"
    /\ aggregateTwoStopChannels(main.stopCh, main.remoteAttsInformerStopCh[i])
    /\ main' = [main EXCEPT !.aggregateStopCh[i] = "closed"]
    /\ LocksUnchanged

NextStop ==
    \/ \E i \in Watchers : StartRemoteAttsInformer(i)
    \/ \E i \in Watchers : CloseRemoteAttsInformerStopCh(i)
    \/ CloseStopCh
    \/ \E i \in Watchers : AggregateGoroutine(i)

SpecStop == InitStop /\ [][NextStop]_vars

\* the Go scheduler runs a goroutine whose select is ready
FairSpecStop == SpecStop /\ \A i \in Watchers : WF_vars(AggregateGoroutine(i))

\* C35: the stop signal a remote watcher runs with is eventually closed
\* once the stop signal of the process or the one of its VN-state is
\* closed, and it is never closed while both are open
C35_AggregateStopSignal ==
    /\ \A i \in Watchers :
          (/\ main.aggregateStopCh[i] = "open"
           /\ (main.stopCh = "closed" \/ main.remoteAttsInformerStopCh[i] = "closed"))
             ~> (main.aggregateStopCh[i] = "closed")
    /\ [](\A i \in Watchers :
             main.aggregateStopCh[i] = "closed" =>
                (main.stopCh = "closed" \/ main.remoteAttsInformerStopCh[i] = "closed"))

\* the stop signal of a VN-state has been closed and its watcher's signal
\* with it, while the process runs on
C35_WatcherStoppedByVNState ==
    \E i \in Watchers :
       /\ main.pc = "stop"
       /\ main.stopCh = "open"
       /\ main.remoteAttsInformerStopCh[i] = "closed"
       /\ main.aggregateStopCh[i] = "closed"

\* ------------------------------------------------- C36

\* the attachment of n has moved to another node and its status still
\* carries the host IP of this node
StatusStillOnThisHost(n) ==
    /\ store[n] # NoAtt
    /\ store[n].node # localNodeName
    /\ store[n].hostIP = IPString(hostIP)

\* C36: no remote interface with the host IP of this node is in the fabric
\* or in the registry of remote interfaces
C36_NoRemoteIfcOnThisHost ==
    /\ \A ifc \in remoteIfcs : ~IPEqual(ifc.HostIP, hostIP)
    /\ \A n \in Names :
          nsnToRemoteIfc[n] # NoIfc => ~IPEqual(nsnToRemoteIfc[n].HostIP, hostIP)

\* an attachment has moved to another node with this node's host IP still
\* in its status, the remote watcher of its VNI has synced without it, and
\* a remote interface of another attachment is in the fabric
C36_MovedAwayWithStatusOfThisHost ==
    \E n \in Names, v \in VNIs :
       /\ StatusStillOnThisHost(n)
       /\ store[n].vni = v
       /\ vniToVnState[v] # NoVnState
       /\ vniToVnState[v].synced
       /\ vniToVnState[v].cache[n] = NoAtt
       /\ localCache[n] = NoAtt
       /\ \E m \in Names \ {n} : nsnToRemoteIfc[m] \in remoteIfcs

\* ------------------------------------------------- C37

\* identity n is in the queue or marked for it
Enqueued(n) == n \in queue'.dirty

\* a notification of the local stream on n: the local cache changes
LocalNotification(n) == localCache'[n] # localCache[n]

\* a notification of the remote stream of v on n: the cache of the
\* registered VN-state of v changes
RemoteNotification(v, n) ==
    /\ vniToVnState[v] # NoVnState
    /\ vniToVnState'[v] # NoVnState
    /\ vniToVnState'[v].cache[n] # vniToVnState[v].cache[n]

\* every notification enqueues the identity; with a remote add the VNI of
\* the attachment is in the identity's tracker set, with a remote delete
\* it is out of it, in the state in which the identity is enqueued
NotificationEnqueues ==
    \A n \in Names :
       /\ LocalNotification(n) => Enqueued(n)
       /\ \A v \in VNIs :
             RemoteNotification(v, n) =>
                /\ Enqueued(n)
                /\ vniToVnState[v].cache[n] = NoAtt =>
                      vniToVnState'[v].cache[n].vni \in nsnToVNIs'[n]
                /\ vniToVnState'[v].cache[n] = NoAtt =>
                      vniToVnState[v].cache[n].vni \notin nsnToVNIs'[n]

\* what a worker finds when it dequeues: the tracker set of an identity
\* holds the VNI of every remote stream that has reported the identity
TrackerHoldsReportedVNIs ==
    \A n \in Names, v \in VNIs :
       (vniToVnState[v] # NoVnState /\ vniToVnState[v].cache[n] # NoAtt) =>
          vniToVnState[v].cache[n].vni \in nsnToVNIs[n]

\* C37: every add, update and delete notification of the local stream and
\* of the remote streams enqueues the identity; a remote add has put the
\* VNI in the identity's tracker set and a remote delete has taken it out
\* when the identity is enqueued, so the worker that dequeues it finds the
\* updated tracker
C37_NotificationsEnqueueAfterTracker ==
    /\ [][NotificationEnqueues]_vars
    /\ []TrackerHoldsReportedVNIs

\* a worker has dequeued an identity that a remote stream has reported, and
\* holds the attachment it found through the tracker (the case without the
\* interleaving that empties the tracker)
C37_DequeuedRemoteAtt ==
    \E w \in Workers, v \in VNIs :
       /\ wk[w].pc = "exist"
       /\ wk[w].att.node # localNodeName
       /\ vniToVnState[v] # NoVnState
       /\ vniToVnState[v].cache[wk[w].item] = wk[w].att
       /\ nsnToVNIs[wk[w].item] = {v}

\* ------------------------------------------------- C38

\* within every registered VN-state the local and the remote set are
\* disjoint
LocalAndRemoteDisjoint ==
    \A v \in VNIs :
       vniToVnState[v] # NoVnState =>
          vniToVnState[v].localAtts \cap vniToVnState[v].remoteAtts = {}

\* the VNIs of the registered VN-states that identity n is a member of
VNStatesOf(n) == {v \in VNIs : MemberOfVNState(n, v)}

\* C38: within every registered VN-state the local set and the remote set
\* are disjoint, and an identity is a member of at most one registered
\* VN-state
C38_OneVNStateOneSet ==
    /\ LocalAndRemoteDisjoint
    /\ \A n \in Names : Cardinality(VNStatesOf(n)) <= 1

\* an identity with the local interface it was given in VNI 1 is now in the
\* local set of the VN-state of VNI 2 and of no other, and a worker is
\* about to replace its interface
C38_MovedToOtherVNState ==
    \E n \in Names, w \in Workers :
       /\ wk[w].pc = "ifc"
       /\ wk[w].item = n
       /\ wk[w].att.vni = 2
       /\ nsnToLocalIfc[n] # NoIfc
       /\ nsnToLocalIfc[n].VNI = 1
       /\ VNStatesOf(n) = {2}
       /\ n \in vniToVnState[2].localAtts

\* ------------------------------------------------- C39

\* neither start-up nor a worker is in the middle of an operation on n
NoOperationOn(n) ==
    /\ main.pc \in {"running", "failed"}
    /\ \A w \in Workers : wk[w].pc # "idle" => wk[w].item # n

\* C39: when neither start-up nor a worker is in the middle of an operation
\* on an identity, an interface registered for the identity is in the
\* fabric
C39_RegisteredIfcInFabric ==
    \A n \in Names :
       NoOperationOn(n) =>
          /\ nsnToLocalIfc[n] # NoIfc => nsnToLocalIfc[n] \in localIfcs
          /\ nsnToRemoteIfc[n] # NoIfc => nsnToRemoteIfc[n] \in remoteIfcs

\* the same for the identities that start-up has not left in both
\* registries
RegisteredIfcInFabricUnlessInBoth ==
    \A n \in Names :
       (NoOperationOn(n) /\ ~(nsnToLocalIfc[n] # NoIfc /\ nsnToRemoteIfc[n] # NoIfc)) =>
          /\ nsnToLocalIfc[n] # NoIfc => nsnToLocalIfc[n] \in localIfcs
          /\ nsnToRemoteIfc[n] # NoIfc => nsnToRemoteIfc[n] \in remoteIfcs

\* ------------------------------------------------- C40
\* generateMACAddr on two pairs of a VNI and a guest IP.

\* VNIs of [1, 2^21 - 1] that differ in the low byte, in the second byte
\* and in bits 16 to 20
PairVNIs == {1, 2, 257, 8192, 8193, 65537, 1048577, 2097151}

\* guest IPs, several of them with the same first byte
PairIPs == { <<10, 0, 0, 5>>, <<10, 0, 0, 6>>, <<10, 0, 1, 5>>, <<10, 1, 0, 5>>,
             <<10, 255, 255, 255>>, <<14, 0, 0, 5>>, <<192, 168, 1, 7>> }

\* two attachments, each with a VNI and a guest IP, whose MAC addresses
\* have not been derived
InitPair ==
    /\ main \in [pc : {"pair"}, vni : PairVNIs, ip : PairIPs, mac : {<<>>},
                 vni2 : PairVNIs, ip2 : PairIPs, mac2 : {<<>>}]
    /\ store = [n \in Names |-> NoAtt]
    /\ events = 0
    /\ localIfcs = {}
    /\ remoteIfcs = {}
    /\ localCache = [n \in Names |-> NoAtt]
    /\ vniToVnState = [v \in VNIs |-> NoVnState]
    /\ nsnToVNStateVNI = [n \in Names |-> NoVNI]
    /\ nsnToLocalIfc = [n \in Names |-> NoIfc]
    /\ nsnToRemoteIfc = [n \in Names |-> NoIfc]
    /\ nsnToVNIs = [n \in Names |-> {}]
    /\ queue = [queue |-> {}, dirty |-> {}, processing |-> {}, delayed |-> {},
                failed |-> {}, shut |-> FALSE]
    /\ wk = [w \in Workers |-> Idle]

\* createOrUpdateIfc derives the MAC of the first attachment
DeriveFirstMAC ==
    /\ main.pc = "pair"
    /\ main.mac = <<>>
    /\ main' = [main EXCEPT !.mac = generateMACAddr(main.vni, main.ip)]
    /\ LocksUnchanged

\* createOrUpdateIfc derives the MAC of the second attachment
DeriveSecondMAC ==
    /\ main.pc = "pair"
    /\ main.mac2 = <<>>
    /\ main' = [main EXCEPT !.mac2 = generateMACAddr(main.vni2, main.ip2)]
    /\ LocksUnchanged

NextPair ==
    \/ DeriveFirstMAC
    \/ DeriveSecondMAC

SpecPair == InitPair /\ [][NextPair]_vars

\* both MAC addresses have been derived
BothDerived == main.pc = "pair" /\ main.mac # <<>> /\ main.mac2 # <<>>

\* C40: for VNIs in [1, 2^21 - 1] and guest IPs with the same first byte,
\* two different pairs of VNI and IP never derive the same MAC, so that
\* the update test and the MAC index tell them apart, and every derived
\* MAC has the locally-administered bit set and the multicast bit clear in
\* its first byte
C40_MACInjectiveOnSameFirstOctet ==
    /\ main.pc = "pair"
    /\ BothDerived =>
          /\ (/\ main.ip[1] = main.ip2[1]
              /\ << main.vni, main.ip >> # << main.vni2, main.ip2 >>) =>
                /\ main.mac # main.mac2
                /\ MACString(main.mac) # MACString(main.mac2)
                /\ ifcNeedsUpdate(hostIP, hostIP, main.mac, main.mac2)
          /\ Bit(main.mac[1], 1) = 1 /\ Bit(main.mac[1], 0) = 0
          /\ Bit(main.mac2[1], 1) = 1 /\ Bit(main.mac2[1], 0) = 0

\* the MAC addresses of two attachments that have the same guest IP and
\* VNIs that differ only above bit 15 have been derived, and differ
C40_SameIPDifferentHighVNI ==
    /\ BothDerived
    /\ main.ip = main.ip2
    /\ main.vni = 1
    /\ main.vni2 = 65537
    /\ main.mac # main.mac2

====
